---- MODULE Spec2Model ----
(***************************************************************************)
(* socket_chat: the Hub event loop (internal/server/hub.go), the Acceptor  *)
(* and handshake (internal/server/server.go) and the two pumps of a Client *)
(* (internal/server/client.go, reproduced in web-go-prompt.md).            *)
(*                                                                         *)
(* The three Hub channels are unbuffered: a send is a rendezvous, modelled *)
(* as one joint step of the sender and the Hub's select.  Handling the     *)
(* received event is a separate Hub step; the range loop of a broadcast    *)
(* takes one step per visited client, so pumps run between two iterations. *)
(***************************************************************************)
EXTENDS Integers, Sequences, FiniteSets, TLC

\* ---- bounds of the model ----
NumConns == 2   \* connections the listener accepts
SendCap  == 2   \* capacity of Client.send (256 in newClient), scaled down
MaxLines == 1   \* chat lines the peers send in total, after their nicknames
MaxTicks == 1   \* ticks of the writePump tickers in total

Conn   == 1 .. NumConns
NoConn == 0

\* ---- byte sequences on the wire, by what they are ----
Line(kind, c, k) == [kind |-> kind, from |-> c, n |-> k]
NoMsg      == Line("none", NoConn, 0)
Prompt     == Line("prompt", NoConn, 0)     \* "Enter your nickname: "
Ping       == Line("ping", NoConn, 0)       \* "\n"
Notice     == Line("notice", NoConn, 0)     \* "Server is closing the connection.\n"
JoinMsg(c) == Line("join", c, 0)            \* "<nickname> has joined the chat.\n"
ChatMsg(c, k) == Line("chat", c, k)         \* "[<nickname>]: <k-th line of c>"

VARIABLES
  clients,     \* Hub.clients: the registered set
  hubPc,       \* where Hub.Run is: "select", or the case it is executing
  hubClient,   \* the client received on register / unregister
  hubMsg,      \* the message received on broadcast
  hubTodo,     \* clients the range loop has not visited yet
  send,        \* Client.send: buffered messages
  closes,      \* Client.send: number of close() calls (2 = panic)
  hc,          \* handleConnection's position, per connection
  rp,          \* readPump's position
  wp,          \* writePump's position
  nread,       \* chat lines readPump has read
  nticks,      \* ticks of writePump's ticker
  connClosed,  \* conn.Close() has been called
  out,         \* what has been written to conn
  hubLog,      \* history: broadcasts in the order the Hub received them
  enq,         \* history: messages ever queued on Client.send
  nreg         \* history: Register events the Hub handled, per client

hubVars  == <<clients, hubPc, hubClient, hubMsg, hubTodo>>
chanVars == <<send, closes>>
connVars == <<nread, nticks, connClosed, out>>
histVars == <<hubLog, enq, nreg>>

\* ---- time: the deadlines and tickers of the pumps (TimedSpec) ----
VARIABLES
  now,         \* time.Now(), in seconds since the server started
  deadline,    \* the read deadline set on conn by SetReadDeadline
  tickAt,      \* when writePump's ticker fires next
  idleFrom,    \* history: when readPump started or last read a line
  why          \* why readPump left its loop: "timeout" or "error"

timeVars == <<now, deadline, tickAt, idleFrom, why>>

\* ---- bytes: what the peer sends and what is made of it (WireSpec) ----
VARIABLES
  script,      \* the lines the peer of a connection sends, in order
  nsent,       \* how many of them it has sent
  sock,        \* bytes that have arrived on conn and were not read yet
  hsBuf,       \* bytes held by the bufio.Reader of handleConnection
  rdBuf,       \* bytes held by the bufio.Reader of readPump
  nickname,    \* Client.nickname
  message,     \* the message readPump has built and is sending to the Hub
  lineLog      \* history: the lines ReadBytes returned to readPump

wireVars == <<script, nsent, sock, hsBuf, rdBuf, nickname, message, lineLog>>

\* ---- the server process: main and Server.Start (ListenSpec) ----
VARIABLES
  startPc,     \* where Server.Start is: "listen", "accept" or "returned"
  acceptErrs,  \* "Failed to accept connection" lines logged
  errChan,     \* errChan of main: the errors Start has returned
  mainPc       \* where main is: "select", "exit1" or "exit0"

srvVars == <<startPc, acceptErrs, errChan, mainPc>>

\* ---- the chat client process (ClientSpec) ----
VARIABLES
  cmain,       \* where the client's main is: "select", "sleep" or "exited"
  rtask,       \* readFromServer: "copy", "defer" or "returned"
  wtask,       \* writeToServer: "copy", "defer" or "returned"
  once,        \* sync.Once: the function has been run
  doneCloses,  \* number of close(done) calls (2 = panic)
  ctxDone,     \* SIGINT or SIGTERM has arrived
  typed,       \* lines copied from stdin to the conn
  inflight,    \* lines the server has sent that were not printed yet
  srvSent,     \* lines the server has sent
  srvClosed,   \* the server has closed the connection
  printed,     \* history: lines printed on stdout
  eofAt        \* history: lines printed when writeToServer saw the end of stdin

cliVars == <<cmain, rtask, wtask, once, doneCloses, ctxDone, typed,
             inflight, srvSent, srvClosed, printed, eofAt>>

\* the state that only the specifications of one part use
extVars == <<timeVars, wireVars, srvVars, cliVars>>
\* a panic of the Hub goroutine ends the process
Alive == hubPc # "panic"

RECURSIVE Sum(_, _)
Sum(f, S) == IF S = {} THEN 0
             ELSE LET x == CHOOSE y \in S : TRUE IN f[x] + Sum(f, S \ {x})

vars == <<clients, hubPc, hubClient, hubMsg, hubTodo, send, closes, hc, rp, wp,
          nread, nticks, connClosed, out, hubLog, enq, nreg, timeVars, wireVars,
          srvVars, cliVars>>

\* the server has started: nothing is connected, the clock is at 0
Started ==
  /\ clients = {}
  /\ hubPc = "select"
  /\ hubClient = NoConn
  /\ hubMsg = NoMsg
  /\ hubTodo = {}
  /\ send = [c \in Conn |-> <<>>]
  /\ closes = [c \in Conn |-> 0]
  /\ hc = [c \in Conn |-> "idle"]
  /\ rp = [c \in Conn |-> "none"]
  /\ wp = [c \in Conn |-> "none"]
  /\ nread = [c \in Conn |-> 0]
  /\ nticks = [c \in Conn |-> 0]
  /\ connClosed = [c \in Conn |-> FALSE]
  /\ out = [c \in Conn |-> <<>>]
  /\ hubLog = <<>>
  /\ enq = [c \in Conn |-> <<>>]
  /\ nreg = [c \in Conn |-> 0]
  /\ now = 0
  /\ deadline = [c \in Conn |-> 0]
  /\ tickAt = [c \in Conn |-> 0]
  /\ idleFrom = [c \in Conn |-> 0]
  /\ why = [c \in Conn |-> "none"]
  /\ nsent = [c \in Conn |-> 0]
  /\ sock = [c \in Conn |-> <<>>]
  /\ hsBuf = [c \in Conn |-> <<>>]
  /\ rdBuf = [c \in Conn |-> <<>>]
  /\ nickname = [c \in Conn |-> <<>>]
  /\ message = [c \in Conn |-> <<>>]
  /\ lineLog = [c \in Conn |-> <<>>]
  /\ acceptErrs = 0
  /\ errChan = <<>>
  /\ mainPc = "select"
  /\ cmain = "select"
  /\ rtask = "copy"
  /\ wtask = "copy"
  /\ once = FALSE
  /\ doneCloses = 0
  /\ ctxDone = FALSE
  /\ typed = 0
  /\ inflight = 0
  /\ srvSent = 0
  /\ srvClosed = FALSE
  /\ printed = 0
  /\ eofAt = -1

\* net.Listen has succeeded: Server.Start is in its accept loop
Listening == startPc = "accept"

\* the bytes the peers send are left out
Init == Started /\ Listening /\ script = [c \in Conn |-> <<>>]

\* ---------------------------------------------------------------------
\* Acceptor and handshake (server.go)
\* ---------------------------------------------------------------------

\* a bug: handleConnection is called in the accept loop, not in a goroutine
AcceptInline(c) ==
  /\ Alive
  /\ Listening
  /\ hc[c] = "idle"
  /\ \A d \in Conn \ {c} : hc[d] \in {"idle", "failed", "done"}
  /\ hc' = [hc EXCEPT ![c] = "prompt"]
  /\ UNCHANGED <<hubVars, chanVars, rp, wp, connVars, histVars>>
  /\ UNCHANGED extVars

\* listener.Accept() succeeded; go s.handleConnection(conn)
Accept(c) ==
  /\ Alive
  /\ Listening
  /\ hc[c] = "idle"
  /\ hc' = [hc EXCEPT ![c] = "prompt"]
  /\ UNCHANGED <<hubVars, chanVars, rp, wp, connVars, histVars>>
  /\ UNCHANGED extVars

\* conn.Write("Enter your nickname: "); on error conn.Close() and return
WritePrompt(c) ==
  /\ Alive
  /\ hc[c] = "prompt"
  /\ \/ /\ out' = [out EXCEPT ![c] = Append(@, Prompt)]
        /\ hc' = [hc EXCEPT ![c] = "nickname"]
        /\ UNCHANGED connClosed
     \/ /\ connClosed' = [connClosed EXCEPT ![c] = TRUE]
        /\ hc' = [hc EXCEPT ![c] = "failed"]
        /\ UNCHANGED out
  /\ UNCHANGED <<hubVars, chanVars, rp, wp, nread, nticks, histVars>>
  /\ UNCHANGED extVars

\* a bug: the return after a failed read is missing
ReadNicknameNoReturn(c) ==
  /\ Alive
  /\ hc[c] = "nickname"
  /\ \/ /\ hc' = [hc EXCEPT ![c] = "register"]
        /\ UNCHANGED connClosed
     \/ /\ connClosed' = [connClosed EXCEPT ![c] = TRUE]
        /\ hc' = [hc EXCEPT ![c] = "register"]
  /\ UNCHANGED <<hubVars, chanVars, rp, wp, nread, nticks, out, histVars>>
  /\ UNCHANGED extVars

\* reader.ReadString('\n'); on error conn.Close() and return; newClient(...)
ReadNickname(c) ==
  /\ Alive
  /\ hc[c] = "nickname"
  /\ \/ /\ hc' = [hc EXCEPT ![c] = "register"]
        /\ UNCHANGED connClosed
     \/ /\ connClosed' = [connClosed EXCEPT ![c] = TRUE]
        /\ hc' = [hc EXCEPT ![c] = "failed"]
  /\ UNCHANGED <<hubVars, chanVars, rp, wp, nread, nticks, out, histVars>>
  /\ UNCHANGED extVars

\* s.hub.register <- client, received by the Hub's select
SendRegister(c) ==
  /\ hc[c] = "register"
  /\ hubPc = "select"
  /\ hubPc' = "register"
  /\ hubClient' = c
  /\ hc' = [hc EXCEPT ![c] = "join"]
  /\ UNCHANGED <<clients, hubMsg, hubTodo, chanVars, rp, wp, connVars, histVars>>
  /\ UNCHANGED extVars

\* a bug: the sender of the message is skipped
RecipientsButSender(m) == clients \ {m.from}

\* a bug, or a check the Hub does not make: a message whose sender is not
\* registered goes to nobody
RecipientsOfMember(m) == IF m.from \in clients THEN clients ELSE {}

\* for client := range h.clients
Recipients(m) == clients

\* case message := <-h.broadcast: the Hub starts the range loop
RecvBroadcast(m) ==
  /\ hubPc = "select"
  /\ hubPc' = "broadcast"
  /\ hubMsg' = m
  /\ hubTodo' = Recipients(m)
  /\ hubLog' = Append(hubLog, [msg |-> m, regs |-> clients, full |-> {}])
  /\ UNCHANGED <<clients, hubClient>>

\* s.hub.broadcast <- []byte(joinMsg), received by the Hub's select
SendJoin(c) ==
  /\ hc[c] = "join"
  /\ RecvBroadcast(JoinMsg(c))
  /\ hc' = [hc EXCEPT ![c] = "start"]
  /\ UNCHANGED <<chanVars, rp, wp, connVars, enq, nreg>>
  /\ UNCHANGED extVars

\* a bug: the pumps are started before the join notice is sent
StartPumpsEarly(c) ==
  /\ Alive
  /\ hc[c] = "join"
  /\ hc' = [hc EXCEPT ![c] = "done"]
  /\ wp' = [wp EXCEPT ![c] = "select"]
  /\ rp' = [rp EXCEPT ![c] = "read"]
  /\ UNCHANGED <<hubVars, chanVars, connVars, histVars>>
  /\ UNCHANGED extVars

\* go client.writePump(); go client.readPump()
StartPumps(c) ==
  /\ Alive
  /\ hc[c] = "start"
  /\ hc' = [hc EXCEPT ![c] = "done"]
  /\ wp' = [wp EXCEPT ![c] = "select"]
  /\ rp' = [rp EXCEPT ![c] = "read"]
  /\ UNCHANGED <<hubVars, chanVars, connVars, histVars>>
  /\ UNCHANGED extVars

\* ---------------------------------------------------------------------
\* Client.readPump (client.go)
\* ---------------------------------------------------------------------

\* a bug: a failed read skips the deferred send and goes straight to the close
ReadLineNoUnregister(c) ==
  /\ Alive
  /\ rp[c] = "read"
  /\ \/ /\ Sum(nread, Conn) < MaxLines
        /\ nread' = [nread EXCEPT ![c] = @ + 1]
        /\ rp' = [rp EXCEPT ![c] = "broadcast"]
     \/ /\ rp' = [rp EXCEPT ![c] = "close"]
        /\ UNCHANGED nread
  /\ UNCHANGED <<hubVars, chanVars, hc, wp, nticks, connClosed, out, histVars>>
  /\ UNCHANGED extVars

\* a bug: the pump reads the next line while its last message is still waiting
\* for the Hub, and the waiting message is replaced
ReadLineAhead(c, max) ==
  /\ Alive
  /\ rp[c] \in {"read", "broadcast"}
  /\ \/ /\ Sum(nread, Conn) < max
        /\ nread' = [nread EXCEPT ![c] = @ + 1]
        /\ rp' = [rp EXCEPT ![c] = "broadcast"]
     \/ /\ rp[c] = "read"
        /\ rp' = [rp EXCEPT ![c] = "unregister"]
        /\ UNCHANGED nread
  /\ UNCHANGED <<hubVars, chanVars, hc, wp, nticks, connClosed, out, histVars>>
  /\ UNCHANGED extVars

\* reader.ReadBytes('\n'): a line, or an error (timeout, EOF, closed conn); a
\* line the bufio.Reader already holds is returned even when conn is closed.
\* The peers send at most max lines in total.
ReadLineOf(c, max) ==
  /\ Alive
  /\ rp[c] = "read"
  /\ \/ /\ Sum(nread, Conn) < max
        /\ nread' = [nread EXCEPT ![c] = @ + 1]
        /\ rp' = [rp EXCEPT ![c] = "broadcast"]
     \/ /\ rp' = [rp EXCEPT ![c] = "unregister"]
        /\ UNCHANGED nread
  /\ UNCHANGED <<hubVars, chanVars, hc, wp, nticks, connClosed, out, histVars>>
  /\ UNCHANGED extVars

ReadLine(c) == ReadLineOf(c, MaxLines)

\* the same read when the peers send one more line
ReadMoreLines(c) == ReadLineOf(c, MaxLines + 1)

\* c.hub.broadcast <- message, received by the Hub's select
SendBroadcast(c) ==
  /\ rp[c] = "broadcast"
  /\ RecvBroadcast(ChatMsg(c, nread[c]))
  /\ rp' = [rp EXCEPT ![c] = "read"]
  /\ UNCHANGED <<chanVars, hc, wp, connVars, enq, nreg>>
  /\ UNCHANGED extVars

\* a bug: the deferred send goes to the register channel, of the same type
SendUnregisterTypo(c) ==
  /\ rp[c] = "unregister"
  /\ hubPc = "select"
  /\ hubPc' = "register"
  /\ hubClient' = c
  /\ rp' = [rp EXCEPT ![c] = "close"]
  /\ UNCHANGED <<clients, hubMsg, hubTodo, chanVars, hc, wp, connVars, histVars>>
  /\ UNCHANGED extVars

\* a bug: a client that is not in the map any more skips the deferred send
SendUnregisterIfMember(c) ==
  /\ rp[c] = "unregister"
  /\ hubPc = "select"
  /\ rp' = [rp EXCEPT ![c] = "close"]
  /\ IF c \in clients
       THEN hubPc' = "unregister" /\ hubClient' = c
       ELSE UNCHANGED <<hubPc, hubClient>>
  /\ UNCHANGED <<clients, hubMsg, hubTodo, chanVars, hc, wp, connVars, histVars>>
  /\ UNCHANGED extVars

\* deferred: c.hub.unregister <- c, received by the Hub's select
SendUnregister(c) ==
  /\ rp[c] = "unregister"
  /\ hubPc = "select"
  /\ hubPc' = "unregister"
  /\ hubClient' = c
  /\ rp' = [rp EXCEPT ![c] = "close"]
  /\ UNCHANGED <<clients, hubMsg, hubTodo, chanVars, hc, wp, connVars, histVars>>
  /\ UNCHANGED extVars

\* a bug: the pump removes itself from the Hub's map
ReadPumpCloseDeletes(c) ==
  /\ Alive
  /\ rp[c] = "close"
  /\ connClosed' = [connClosed EXCEPT ![c] = TRUE]
  /\ rp' = [rp EXCEPT ![c] = "done"]
  /\ clients' = clients \ {c}
  /\ UNCHANGED <<hubPc, hubClient, hubMsg, hubTodo, chanVars, hc, wp, nread,
                 nticks, out, histVars>>
  /\ UNCHANGED extVars

\* deferred: c.conn.Close()
ReadPumpClose(c) ==
  /\ Alive
  /\ rp[c] = "close"
  /\ connClosed' = [connClosed EXCEPT ![c] = TRUE]
  /\ rp' = [rp EXCEPT ![c] = "done"]
  /\ UNCHANGED <<hubVars, chanVars, hc, wp, nread, nticks, out, histVars>>
  /\ UNCHANGED extVars

\* ---------------------------------------------------------------------
\* Client.writePump (client.go)
\* ---------------------------------------------------------------------

\* the message writePump takes from c.send
Dequeued(c) == Head(send[c])

\* a bug: the deferred function closes the conn of every client
WritePumpExitAll(c) ==
  /\ wp' = [wp EXCEPT ![c] = "done"]
  /\ connClosed' = [d \in Conn |-> TRUE]

\* a bug: writePump returns without closing the conn
WritePumpExitOpen(c) ==
  /\ wp' = [wp EXCEPT ![c] = "done"]
  /\ UNCHANGED connClosed

\* return from writePump: ticker.Stop(); c.conn.Close()
WritePumpExit(c) ==
  /\ wp' = [wp EXCEPT ![c] = "done"]
  /\ connClosed' = [connClosed EXCEPT ![c] = TRUE]

\* a bug: after a failed write the pump closes its own queue
WriteMessageCloses(c) ==
  /\ Alive
  /\ wp[c] = "select"
  /\ send[c] # <<>>
  /\ send' = [send EXCEPT ![c] = Tail(@)]
  /\ \/ /\ ~connClosed[c]
        /\ out' = [out EXCEPT ![c] = Append(@, Dequeued(c))]
        /\ UNCHANGED <<wp, connClosed, closes>>
     \/ /\ WritePumpExit(c)
        /\ closes[c] = 0
        /\ closes' = [closes EXCEPT ![c] = @ + 1]
        /\ UNCHANGED out
  /\ UNCHANGED <<hubVars, hc, rp, nread, nticks, histVars>>
  /\ UNCHANGED extVars

\* case message, ok := <-c.send with ok: conn.Write(message)
WriteMessage(c) ==
  /\ Alive
  /\ wp[c] = "select"
  /\ send[c] # <<>>
  /\ send' = [send EXCEPT ![c] = Tail(@)]
  /\ \/ /\ ~connClosed[c]
        /\ out' = [out EXCEPT ![c] = Append(@, Dequeued(c))]
        /\ UNCHANGED <<wp, connClosed>>
     \/ /\ WritePumpExit(c)
        /\ UNCHANGED out
  /\ UNCHANGED <<hubVars, closes, hc, rp, nread, nticks, histVars>>
  /\ UNCHANGED extVars

\* a bug: the closed queue is noticed before the queued messages are written
WriteClosedEarly(c) ==
  /\ Alive
  /\ wp[c] = "select"
  /\ closes[c] > 0
  /\ \/ /\ ~connClosed[c]
        /\ out' = [out EXCEPT ![c] = Append(@, Notice)]
     \/ UNCHANGED out
  /\ WritePumpExit(c)
  /\ UNCHANGED <<hubVars, chanVars, hc, rp, nread, nticks, histVars>>
  /\ UNCHANGED extVars

\* case message, ok := <-c.send with !ok: write the notice, return
WriteClosed(c) ==
  /\ Alive
  /\ wp[c] = "select"
  /\ send[c] = <<>>
  /\ closes[c] > 0
  /\ \/ /\ ~connClosed[c]
        /\ out' = [out EXCEPT ![c] = Append(@, Notice)]
     \/ UNCHANGED out
  /\ WritePumpExit(c)
  /\ UNCHANGED <<hubVars, chanVars, hc, rp, nread, nticks, histVars>>
  /\ UNCHANGED extVars

\* case <-ticker.C: conn.Write("\n")
WriteTick(c) ==
  /\ Alive
  /\ wp[c] = "select"
  /\ Sum(nticks, Conn) < MaxTicks
  /\ nticks' = [nticks EXCEPT ![c] = @ + 1]
  /\ \/ /\ ~connClosed[c]
        /\ out' = [out EXCEPT ![c] = Append(@, Ping)]
        /\ UNCHANGED <<wp, connClosed>>
     \/ /\ WritePumpExit(c)
        /\ UNCHANGED out
  /\ UNCHANGED <<hubVars, chanVars, hc, rp, nread, histVars>>
  /\ UNCHANGED extVars

\* ---------------------------------------------------------------------
\* Hub.Run (hub.go)
\* ---------------------------------------------------------------------

\* a bug: the close is forgotten
NotClosed(c) == closes

\* close(client.send)
CloseSend(c) == [closes EXCEPT ![c] = @ + 1]

\* closing a closed channel panics
AfterClose(c, pc) == IF closes[c] = 0 THEN pc ELSE "panic"

\* a bug: the map is keyed by the nickname, a second client of the same name
\* takes the place of the first
HubRegisterByName ==
  /\ hubPc = "register"
  /\ clients' = {d \in clients : nickname[d] # nickname[hubClient]} \cup {hubClient}
  /\ nreg' = [nreg EXCEPT ![hubClient] = @ + 1]
  /\ hubPc' = "select"
  /\ hubClient' = NoConn
  /\ UNCHANGED <<hubMsg, hubTodo, chanVars, hc, rp, wp, connVars, hubLog, enq>>
  /\ UNCHANGED extVars

\* case client := <-h.register: h.clients[client] = true
HubRegister ==
  /\ hubPc = "register"
  /\ clients' = clients \cup {hubClient}
  /\ nreg' = [nreg EXCEPT ![hubClient] = @ + 1]
  /\ hubPc' = "select"
  /\ hubClient' = NoConn
  /\ UNCHANGED <<hubMsg, hubTodo, chanVars, hc, rp, wp, connVars, hubLog, enq>>
  /\ UNCHANGED extVars

\* a bug: no check that the client is present
NoPresenceCheck(c) == TRUE

\* if _, ok := h.clients[client]; ok
IsRegistered(c) == c \in clients

\* a bug: an Unregister also drops the clients whose conn is closed
HubUnregisterSweeps ==
  /\ hubPc = "unregister"
  /\ IF IsRegistered(hubClient)
       THEN /\ clients' = {d \in clients \ {hubClient} : ~connClosed[d]}
            /\ closes' = CloseSend(hubClient)
            /\ hubPc' = AfterClose(hubClient, "select")
       ELSE /\ hubPc' = "select"
            /\ UNCHANGED <<clients, closes>>
  /\ hubClient' = NoConn
  /\ UNCHANGED <<hubMsg, hubTodo, send, hc, rp, wp, connVars, histVars>>
  /\ UNCHANGED extVars

\* case client := <-h.unregister: delete and close if present
HubUnregister ==
  /\ hubPc = "unregister"
  /\ IF IsRegistered(hubClient)
       THEN /\ clients' = clients \ {hubClient}
            /\ closes' = CloseSend(hubClient)
            /\ hubPc' = AfterClose(hubClient, "select")
       ELSE /\ hubPc' = "select"
            /\ UNCHANGED <<clients, closes>>
  /\ hubClient' = NoConn
  /\ UNCHANGED <<hubMsg, hubTodo, send, hc, rp, wp, connVars, histVars>>
  /\ UNCHANGED extVars

\* a bug: off by one, a full buffer is not seen as full
SendWouldBlockLate(c) == Len(send[c]) > SendCap

\* select { case client.send <- message: ... default: ... }: default is taken
\* when the buffer is full
SendWouldBlock(c) == Len(send[c]) >= SendCap

\* a bug: the message is put at the front of the queue
EnqueueFront(q, m) == <<m>> \o q

\* case client.send <- message: the channel is a FIFO
Enqueue(q, m) == Append(q, m)

\* a bug: the evicted client stays in the map
EvictKept(c) == clients

\* delete(h.clients, client) in the default branch
AfterEvict(c) == clients \ {c}

\* a bug: a blocking send, the Hub waits for room in the queue
HubBroadcastBlocking(c) ==
  /\ hubPc = "broadcast"
  /\ c \in hubTodo
  /\ closes[c] = 0
  /\ Len(send[c]) < SendCap
  /\ hubTodo' = hubTodo \ {c}
  /\ send' = [send EXCEPT ![c] = Append(@, hubMsg)]
  /\ enq' = [enq EXCEPT ![c] = Append(@, hubMsg)]
  /\ UNCHANGED <<clients, closes, hubPc, hubClient, hubMsg, hc, rp, wp, connVars,
                 hubLog, nreg>>
  /\ UNCHANGED extVars

\* a bug: a plain send on a queue that grows, nobody is evicted
HubBroadcastUnbounded(c) ==
  /\ hubPc = "broadcast"
  /\ c \in hubTodo
  /\ closes[c] = 0
  /\ hubTodo' = hubTodo \ {c}
  /\ send' = [send EXCEPT ![c] = Append(@, hubMsg)]
  /\ enq' = [enq EXCEPT ![c] = Append(@, hubMsg)]
  /\ UNCHANGED <<clients, closes, hubPc, hubClient, hubMsg, hc, rp, wp, connVars,
                 hubLog, nreg>>
  /\ UNCHANGED extVars

\* one iteration of the range loop, on client c
HubBroadcast(c) ==
  /\ hubPc = "broadcast"
  /\ c \in hubTodo
  /\ hubTodo' = hubTodo \ {c}
  /\ hubLog' = [hubLog EXCEPT ![Len(hubLog)].full =
                  IF Len(send[c]) >= SendCap THEN @ \cup {c} ELSE @]
  /\ IF closes[c] > 0
       THEN \* send on a closed channel panics
            /\ hubPc' = "panic"
            /\ UNCHANGED <<clients, send, closes, enq>>
       ELSE IF ~SendWouldBlock(c)
       THEN /\ send' = [send EXCEPT ![c] = Enqueue(@, hubMsg)]
            /\ enq' = [enq EXCEPT ![c] = Append(@, hubMsg)]
            /\ UNCHANGED <<clients, closes, hubPc>>
       ELSE /\ closes' = CloseSend(c)
            /\ clients' = AfterEvict(c)
            /\ UNCHANGED <<send, enq, hubPc>>
  /\ UNCHANGED <<hubClient, hubMsg, hc, rp, wp, connVars, nreg>>
  /\ UNCHANGED extVars

\* the range loop is over: back to the select
HubBroadcastEnd ==
  /\ hubPc = "broadcast"
  /\ hubTodo = {}
  /\ hubPc' = "select"
  /\ hubMsg' = NoMsg
  /\ UNCHANGED <<clients, hubClient, hubTodo, chanVars, hc, rp, wp, connVars, histVars>>
  /\ UNCHANGED extVars

HubStep == HubRegister \/ HubUnregister \/ HubBroadcastEnd \/ \E c \in Conn : HubBroadcast(c)

HubRecv(c) == SendRegister(c) \/ SendJoin(c) \/ SendBroadcast(c) \/ SendUnregister(c)

AcceptorStep(c) == Accept(c) \/ WritePrompt(c) \/ ReadNickname(c) \/ StartPumps(c)

ReadPumpStep(c) == ReadLine(c) \/ ReadPumpClose(c)

WritePumpStep(c) == WriteMessage(c) \/ WriteClosed(c) \/ WriteTick(c)

Next ==
  \/ HubStep
  \/ \E c \in Conn : HubRecv(c)
  \/ \E c \in Conn : AcceptorStep(c)
  \/ \E c \in Conn : ReadPumpStep(c)
  \/ \E c \in Conn : WritePumpStep(c)

Spec == Init /\ [][Next]_vars

\* Go's select picks among the ready cases at random and a goroutine that can
\* run is eventually run: the Hub finishes the case it is in, and a sender that
\* is ready whenever the Hub is back at its select is eventually received.
FairSpec ==
  /\ Spec
  /\ WF_vars(HubStep)
  /\ \A c \in Conn : SF_vars(HubRecv(c))

\* The runs that are over before the first tick of any writePump's ticker
\* (pingPeriod after the pump started), in which the peers send one line more:
\* enough broadcasts to fill a queue while its endpoint's handshake is still
\* under way.  A tick touches neither the Hub nor the handshake.
EarlyNext ==
  \/ HubStep
  \/ \E c \in Conn : HubRecv(c)
  \/ \E c \in Conn : AcceptorStep(c)
  \/ \E c \in Conn : ReadMoreLines(c) \/ ReadPumpClose(c)
  \/ \E c \in Conn : WriteMessage(c) \/ WriteClosed(c)

EarlySpec == Init /\ [][EarlyNext]_vars

\* The runs without ticks, as in EarlySpec, under the scheduling the Go
\* runtime provides: the Hub finishes the case it is in and receives from a
\* sender that is ready whenever it selects; a read on a closed conn returns;
\* a pump that can take a step of its deferred calls or a ready case of its
\* select takes it.  Nothing is assumed of a read on an open conn.
TeardownNext ==
  \/ HubStep
  \/ \E c \in Conn : HubRecv(c)
  \/ \E c \in Conn : AcceptorStep(c)
  \/ \E c \in Conn : ReadPumpStep(c)
  \/ \E c \in Conn : WriteMessage(c) \/ WriteClosed(c)

TeardownSpec ==
  /\ Init /\ [][TeardownNext]_vars
  /\ WF_vars(HubStep)
  /\ \A c \in Conn : SF_vars(HubRecv(c))
  /\ \A c \in Conn : WF_vars(connClosed[c] /\ ReadLine(c))
  /\ \A c \in Conn : WF_vars(ReadPumpClose(c))
  /\ \A c \in Conn : WF_vars(WriteMessage(c) \/ WriteClosed(c))

\* ---------------------------------------------------------------------
\* Time: the read deadline of readPump and the ticker of writePump
\* (client.go).  Time is counted in seconds and advances in tenths of
\* pongWait; a step of the program takes no time, and time does not pass
\* while a read whose deadline is reached or a tick that is due is pending.
\* One connection is followed.
\* ---------------------------------------------------------------------

MaxTime == 120   \* seconds the clock runs

\* pongWait = 60 * time.Second
pongWait == 60

\* a bug: the ping period is longer than the read deadline
pingPeriodLong == (pongWait * 11) \div 10

\* pingPeriod = (pongWait * 9) / 10
pingPeriod == (pongWait * 9) \div 10

Quantum == pongWait \div 10

\* the connection whose timers are followed
Timed == {1}

\* go client.writePump(); go client.readPump(): time.NewTicker(pingPeriod)
\* and c.conn.SetReadDeadline(time.Now().Add(pongWait))
TimedStartPumps(c) ==
  /\ Alive
  /\ hc[c] = "start"
  /\ hc' = [hc EXCEPT ![c] = "done"]
  /\ wp' = [wp EXCEPT ![c] = "select"]
  /\ rp' = [rp EXCEPT ![c] = "read"]
  /\ tickAt' = [tickAt EXCEPT ![c] = now + pingPeriod]
  /\ deadline' = [deadline EXCEPT ![c] = now + pongWait]
  /\ idleFrom' = [idleFrom EXCEPT ![c] = now]
  /\ UNCHANGED <<hubVars, chanVars, connVars, histVars, now, why, wireVars, srvVars, cliVars>>

\* a bug: the deadline is not reset after a read
TimedReadLineNoReset(c) ==
  /\ Alive
  /\ rp[c] = "read"
  /\ Sum(nread, Conn) < MaxLines
  /\ nread' = [nread EXCEPT ![c] = @ + 1]
  /\ rp' = [rp EXCEPT ![c] = "broadcast"]
  /\ idleFrom' = [idleFrom EXCEPT ![c] = now]
  /\ UNCHANGED <<hubVars, chanVars, hc, wp, nticks, connClosed, out, histVars>>
  /\ UNCHANGED <<now, deadline, tickAt, why, wireVars, srvVars, cliVars>>

\* reader.ReadBytes('\n') returns a line: SetReadDeadline(now + pongWait)
TimedReadLine(c) ==
  /\ Alive
  /\ rp[c] = "read"
  /\ Sum(nread, Conn) < MaxLines
  /\ nread' = [nread EXCEPT ![c] = @ + 1]
  /\ rp' = [rp EXCEPT ![c] = "broadcast"]
  /\ deadline' = [deadline EXCEPT ![c] = now + pongWait]
  /\ idleFrom' = [idleFrom EXCEPT ![c] = now]
  /\ UNCHANGED <<hubVars, chanVars, hc, wp, nticks, connClosed, out, histVars>>
  /\ UNCHANGED <<now, tickAt, why, wireVars, srvVars, cliVars>>

\* reader.ReadBytes('\n') fails with a timeout: the read deadline is reached
ReadTimeout(c) ==
  /\ Alive
  /\ rp[c] = "read"
  /\ now >= deadline[c]
  /\ rp' = [rp EXCEPT ![c] = "unregister"]
  /\ why' = [why EXCEPT ![c] = "timeout"]
  /\ UNCHANGED <<hubVars, chanVars, hc, wp, connVars, histVars>>
  /\ UNCHANGED <<now, deadline, tickAt, idleFrom, wireVars, srvVars, cliVars>>

\* reader.ReadBytes('\n') fails with another error (EOF, closed conn)
ReadError(c) ==
  /\ Alive
  /\ rp[c] = "read"
  /\ rp' = [rp EXCEPT ![c] = "unregister"]
  /\ why' = [why EXCEPT ![c] = "error"]
  /\ UNCHANGED <<hubVars, chanVars, hc, wp, connVars, histVars>>
  /\ UNCHANGED <<now, deadline, tickAt, idleFrom, wireVars, srvVars, cliVars>>

\* a bug: a probe that was written pushes the read deadline back
TimedWriteTickExtends(c) ==
  /\ Alive
  /\ wp[c] = "select"
  /\ now >= tickAt[c]
  /\ tickAt' = [tickAt EXCEPT ![c] = @ + pingPeriod]
  /\ nticks' = [nticks EXCEPT ![c] = @ + 1]
  /\ \/ /\ ~connClosed[c]
        /\ out' = [out EXCEPT ![c] = Append(@, Ping)]
        /\ deadline' = [deadline EXCEPT ![c] = now + pongWait]
        /\ UNCHANGED <<wp, connClosed>>
     \/ /\ WritePumpExit(c)
        /\ UNCHANGED <<out, deadline>>
  /\ UNCHANGED <<hubVars, chanVars, hc, rp, nread, histVars>>
  /\ UNCHANGED <<now, idleFrom, why, wireVars, srvVars, cliVars>>

\* case <-ticker.C: conn.Write("\n"); the ticker fires again a period later
TimedWriteTick(c) ==
  /\ Alive
  /\ wp[c] = "select"
  /\ now >= tickAt[c]
  /\ tickAt' = [tickAt EXCEPT ![c] = @ + pingPeriod]
  /\ nticks' = [nticks EXCEPT ![c] = @ + 1]
  /\ \/ /\ ~connClosed[c]
        /\ out' = [out EXCEPT ![c] = Append(@, Ping)]
        /\ UNCHANGED <<wp, connClosed>>
     \/ /\ WritePumpExit(c)
        /\ UNCHANGED out
  /\ UNCHANGED <<hubVars, chanVars, hc, rp, nread, histVars>>
  /\ UNCHANGED <<now, deadline, idleFrom, why, wireVars, srvVars, cliVars>>

\* a bug, or a deadline the code does not set: time cannot pass pongWait
\* while a handshake waits for the name
AdvanceHandshakeTimed ==
  /\ Alive
  /\ now + Quantum <= MaxTime
  /\ \A c \in Conn :
       /\ rp[c] = "read" => now < deadline[c]
       /\ wp[c] = "select" => now < tickAt[c]
       /\ hc[c] = "nickname" => now < pongWait
  /\ now' = now + Quantum
  /\ UNCHANGED <<hubVars, chanVars, hc, rp, wp, connVars, histVars>>
  /\ UNCHANGED <<deadline, tickAt, idleFrom, why, wireVars, srvVars, cliVars>>

\* time passes, unless a blocked read has reached its deadline or a tick is due
Advance ==
  /\ Alive
  /\ now + Quantum <= MaxTime
  /\ \A c \in Conn :
       /\ rp[c] = "read" => now < deadline[c]
       /\ wp[c] = "select" => now < tickAt[c]
  /\ now' = now + Quantum
  /\ UNCHANGED <<hubVars, chanVars, hc, rp, wp, connVars, histVars>>
  /\ UNCHANGED <<deadline, tickAt, idleFrom, why, wireVars, srvVars, cliVars>>

TimedNext ==
  \/ HubStep
  \/ \E c \in Timed : HubRecv(c)
  \/ \E c \in Timed :
       Accept(c) \/ WritePrompt(c) \/ ReadNickname(c) \/ TimedStartPumps(c)
  \/ \E c \in Timed :
       TimedReadLine(c) \/ ReadTimeout(c) \/ ReadError(c) \/ ReadPumpClose(c)
  \/ \E c \in Timed : WriteMessage(c) \/ WriteClosed(c) \/ TimedWriteTick(c)
  \/ Advance

TimedSpec == Init /\ [][TimedNext]_vars

\* ---------------------------------------------------------------------
\* Bytes: the lines a peer sends, the nickname and the messages made of them
\* (server.go, client.go).  A byte is a one-character string; one connection
\* is followed, with the Hub and both its pumps.
\* ---------------------------------------------------------------------

MaxLen  == 2   \* bytes of a name line before its newline
MaxChat == 2   \* chat lines the peer sends after its name line

\* maxMessageSize = 1024: declared in client.go and used nowhere
maxMessageSize == 1024

LF == "\n"
Alphabet == {"a", " ", "\r"}

\* the byte sequences of at most n bytes without a newline
Texts(n) == UNION {[1 .. k -> Alphabet] : k \in 0 .. n}

NameLines == {t \o <<LF>> : t \in Texts(MaxLen)}
ChatLines == {t \o <<LF>> : t \in Texts(MaxLen - 1)}

\* what a peer sends: its name line, then some chat lines
Scripts ==
  {<<n>> \o cs : n \in NameLines,
                 cs \in UNION {[1 .. k -> ChatLines] : k \in 0 .. MaxChat}}

\* the connection whose bytes are followed
Wired == {1}

WireInit ==
  /\ Started
  /\ Listening
  /\ \E sc \in Scripts : script = [c \in Conn |-> IF c \in Wired THEN sc ELSE <<>>]

\* the buffer holds a complete line
HasLine(b) == \E i \in DOMAIN b : b[i] = LF

FirstLF(b) == CHOOSE i \in DOMAIN b : b[i] = LF /\ \A j \in 1 .. i - 1 : b[j] # LF

\* ReadString('\n') / ReadBytes('\n'): the bytes up to and including the
\* first newline; the rest stays in the bufio.Reader
FirstLine(b) == SubSeq(b, 1, FirstLF(b))
AfterLine(b) == SubSeq(b, FirstLF(b) + 1, Len(b))

\* nickname = nickname[:len(nickname)-1]
TrimNickname(line) == SubSeq(line, 1, Len(line) - 1)

\* fmt.Sprintf("%s has joined the chat.\n", nickname)
JoinText(nick) ==
  nick \o <<" ", "h", "a", "s", " ", "j", "o", "i", "n", "e", "d", " ",
            "t", "h", "e", " ", "c", "h", "a", "t", ".", LF>>

\* a line without its last byte
Payload(line) == SubSeq(line, 1, Len(line) - 1)

\* a bug: the line is trimmed before it is formatted
FormatMessageTrimmed(nick, line) == <<"[">> \o nick \o <<"]", ":", " ">> \o Payload(line)

\* fmt.Sprintf("[%s]: %s", c.nickname, line)
FormatMessage(nick, line) == <<"[">> \o nick \o <<"]", ":", " ">> \o line

\* the peer writes its next line to the connection
PeerSend(c) ==
  /\ Alive
  /\ hc[c] # "idle"
  /\ ~connClosed[c]
  /\ nsent[c] < Len(script[c])
  /\ nsent' = [nsent EXCEPT ![c] = @ + 1]
  /\ sock' = [sock EXCEPT ![c] = @ \o script[c][nsent[c] + 1]]
  /\ UNCHANGED <<hubVars, chanVars, hc, rp, wp, connVars, histVars, timeVars, srvVars, cliVars>>
  /\ UNCHANGED <<script, hsBuf, rdBuf, nickname, message, lineLog>>

\* reader := bufio.NewReader(conn); reader.ReadString('\n'): the reader takes
\* all the bytes that have arrived and returns the first line; on error
\* conn.Close() and return
WireReadNickname(c) ==
  /\ Alive
  /\ hc[c] = "nickname"
  /\ \/ /\ HasLine(sock[c])
        /\ nickname' = [nickname EXCEPT ![c] = TrimNickname(FirstLine(sock[c]))]
        /\ hsBuf' = [hsBuf EXCEPT ![c] = AfterLine(sock[c])]
        /\ sock' = [sock EXCEPT ![c] = <<>>]
        /\ hc' = [hc EXCEPT ![c] = "register"]
        /\ UNCHANGED connClosed
     \/ /\ connClosed' = [connClosed EXCEPT ![c] = TRUE]
        /\ hc' = [hc EXCEPT ![c] = "failed"]
        /\ UNCHANGED <<nickname, hsBuf, sock>>
  /\ UNCHANGED <<hubVars, chanVars, rp, wp, nread, nticks, out, histVars, timeVars, srvVars, cliVars>>
  /\ UNCHANGED <<script, nsent, rdBuf, message, lineLog>>

\* s.hub.broadcast <- []byte(joinMsg), received by the Hub's select
WireSendJoin(c) ==
  /\ hc[c] = "join"
  /\ RecvBroadcast(Line("join", c, JoinText(nickname[c])))
  /\ hc' = [hc EXCEPT ![c] = "start"]
  /\ UNCHANGED <<chanVars, rp, wp, connVars, enq, nreg, extVars>>

\* a bug, or the limit the constant announces: a line is cut at maxMessageSize
WireReadLineCapped(c) ==
  /\ Alive
  /\ rp[c] = "read"
  /\ \/ /\ HasLine(rdBuf[c])
        /\ rdBuf' = [rdBuf EXCEPT ![c] = AfterLine(@)]
        /\ lineLog' = [lineLog EXCEPT ![c] = Append(@, FirstLine(rdBuf[c]))]
        /\ message' = [message EXCEPT ![c] =
             FormatMessage(nickname[c], SubSeq(FirstLine(rdBuf[c]), 1, maxMessageSize))]
        /\ nread' = [nread EXCEPT ![c] = @ + 1]
        /\ rp' = [rp EXCEPT ![c] = "broadcast"]
        /\ UNCHANGED sock
     \/ /\ ~HasLine(rdBuf[c])
        /\ ~connClosed[c]
        /\ HasLine(sock[c])
        /\ rdBuf' = [rdBuf EXCEPT ![c] = AfterLine(sock[c])]
        /\ sock' = [sock EXCEPT ![c] = <<>>]
        /\ lineLog' = [lineLog EXCEPT ![c] = Append(@, FirstLine(sock[c]))]
        /\ message' = [message EXCEPT ![c] =
             FormatMessage(nickname[c], SubSeq(FirstLine(sock[c]), 1, maxMessageSize))]
        /\ nread' = [nread EXCEPT ![c] = @ + 1]
        /\ rp' = [rp EXCEPT ![c] = "broadcast"]
     \/ /\ ~HasLine(rdBuf[c])
        /\ rp' = [rp EXCEPT ![c] = "unregister"]
        /\ UNCHANGED <<rdBuf, sock, lineLog, message, nread>>
  /\ UNCHANGED <<hubVars, chanVars, hc, wp, nticks, connClosed, out, histVars>>
  /\ UNCHANGED <<timeVars, srvVars, cliVars, script, nsent, hsBuf, nickname>>

\* a bug: when the read fails, the bytes of the unfinished line are sent on as
\* a message
WireReadLineFlushes(c) ==
  /\ Alive
  /\ rp[c] = "read"
  /\ \/ /\ HasLine(rdBuf[c])
        /\ rdBuf' = [rdBuf EXCEPT ![c] = AfterLine(@)]
        /\ lineLog' = [lineLog EXCEPT ![c] = Append(@, FirstLine(rdBuf[c]))]
        /\ message' = [message EXCEPT ![c] = FormatMessage(nickname[c], FirstLine(rdBuf[c]))]
        /\ nread' = [nread EXCEPT ![c] = @ + 1]
        /\ rp' = [rp EXCEPT ![c] = "broadcast"]
        /\ UNCHANGED sock
     \/ /\ ~HasLine(rdBuf[c])
        /\ ~connClosed[c]
        /\ HasLine(sock[c])
        /\ rdBuf' = [rdBuf EXCEPT ![c] = AfterLine(sock[c])]
        /\ sock' = [sock EXCEPT ![c] = <<>>]
        /\ lineLog' = [lineLog EXCEPT ![c] = Append(@, FirstLine(sock[c]))]
        /\ message' = [message EXCEPT ![c] = FormatMessage(nickname[c], FirstLine(sock[c]))]
        /\ nread' = [nread EXCEPT ![c] = @ + 1]
        /\ rp' = [rp EXCEPT ![c] = "broadcast"]
     \/ /\ ~HasLine(rdBuf[c])
        /\ rdBuf[c] \o sock[c] = <<>>
        /\ rp' = [rp EXCEPT ![c] = "unregister"]
        /\ UNCHANGED <<rdBuf, sock, lineLog, message, nread>>
     \/ /\ ~HasLine(rdBuf[c])
        /\ rdBuf[c] \o sock[c] # <<>>
        /\ ~HasLine(sock[c])
        /\ message' = [message EXCEPT ![c] = FormatMessage(nickname[c], rdBuf[c] \o sock[c])]
        /\ rdBuf' = [rdBuf EXCEPT ![c] = <<>>]
        /\ sock' = [sock EXCEPT ![c] = <<>>]
        /\ rp' = [rp EXCEPT ![c] = "broadcast"]
        /\ UNCHANGED <<lineLog, nread>>
  /\ UNCHANGED <<hubVars, chanVars, hc, wp, nticks, connClosed, out, histVars>>
  /\ UNCHANGED <<timeVars, srvVars, cliVars, script, nsent, hsBuf, nickname>>

\* reader.ReadBytes('\n') on readPump's own bufio.Reader: a line it holds, or
\* else the first line of the bytes that have arrived; or an error
WireReadLine(c) ==
  /\ Alive
  /\ rp[c] = "read"
  /\ \/ /\ HasLine(rdBuf[c])
        /\ rdBuf' = [rdBuf EXCEPT ![c] = AfterLine(@)]
        /\ lineLog' = [lineLog EXCEPT ![c] = Append(@, FirstLine(rdBuf[c]))]
        /\ message' = [message EXCEPT ![c] = FormatMessage(nickname[c], FirstLine(rdBuf[c]))]
        /\ nread' = [nread EXCEPT ![c] = @ + 1]
        /\ rp' = [rp EXCEPT ![c] = "broadcast"]
        /\ UNCHANGED sock
     \/ /\ ~HasLine(rdBuf[c])
        /\ ~connClosed[c]
        /\ HasLine(sock[c])
        /\ rdBuf' = [rdBuf EXCEPT ![c] = AfterLine(sock[c])]
        /\ sock' = [sock EXCEPT ![c] = <<>>]
        /\ lineLog' = [lineLog EXCEPT ![c] = Append(@, FirstLine(sock[c]))]
        /\ message' = [message EXCEPT ![c] = FormatMessage(nickname[c], FirstLine(sock[c]))]
        /\ nread' = [nread EXCEPT ![c] = @ + 1]
        /\ rp' = [rp EXCEPT ![c] = "broadcast"]
     \/ /\ ~HasLine(rdBuf[c])
        /\ rp' = [rp EXCEPT ![c] = "unregister"]
        /\ UNCHANGED <<rdBuf, sock, lineLog, message, nread>>
  /\ UNCHANGED <<hubVars, chanVars, hc, wp, nticks, connClosed, out, histVars>>
  /\ UNCHANGED <<timeVars, srvVars, cliVars, script, nsent, hsBuf, nickname>>

\* c.hub.broadcast <- message, received by the Hub's select
WireSendBroadcast(c) ==
  /\ rp[c] = "broadcast"
  /\ RecvBroadcast(Line("chat", c, message[c]))
  /\ rp' = [rp EXCEPT ![c] = "read"]
  /\ UNCHANGED <<chanVars, hc, wp, connVars, enq, nreg, extVars>>

WireNext ==
  \/ HubStep
  \/ \E c \in Wired :
       SendRegister(c) \/ WireSendJoin(c) \/ WireSendBroadcast(c) \/ SendUnregister(c)
  \/ \E c \in Wired :
       Accept(c) \/ WritePrompt(c) \/ WireReadNickname(c) \/ StartPumps(c)
  \/ \E c \in Wired : PeerSend(c)
  \/ \E c \in Wired : WireReadLine(c) \/ ReadPumpClose(c)
  \/ \E c \in Wired : WritePumpStep(c)

WireSpec == WireInit /\ [][WireNext]_vars

\* ---------------------------------------------------------------------
\* Long lines: the peer of connection 1 gives a name and then sends one line
\* that is longer than maxMessageSize
\* ---------------------------------------------------------------------

\* maxMessageSize + 1 bytes and the newline
LongLine == [i \in 1 .. maxMessageSize + 1 |-> "a"] \o <<LF>>

LongInit ==
  /\ Started
  /\ Listening
  /\ script = [c \in Conn |-> IF c \in Wired THEN <<<<"a", LF>>, LongLine>> ELSE <<>>]

LongSpec == LongInit /\ [][WireNext]_vars

\* ---------------------------------------------------------------------
\* Names: every connection is followed byte by byte, as connection 1 is in
\* WireSpec, with peers that all give the same name, empty or not, and send
\* at most MaxLines chat lines in total.  No ticks.
\* ---------------------------------------------------------------------

\* the name lines the peers choose from, and what a peer sends after its name
SameNames == {<<LF>>, <<"a", LF>>}
AfterName == {<<>>, <<<<"a", LF>>>>}

NameInit ==
  /\ Started
  /\ Listening
  /\ \E n \in SameNames : \E cs \in [Conn -> AfterName] :
       /\ Sum([c \in Conn |-> Len(cs[c])], Conn) <= MaxLines
       /\ script = [c \in Conn |-> <<n>> \o cs[c]]

NameNext ==
  \/ HubStep
  \/ \E c \in Conn :
       SendRegister(c) \/ WireSendJoin(c) \/ WireSendBroadcast(c) \/ SendUnregister(c)
  \/ \E c \in Conn :
       Accept(c) \/ WritePrompt(c) \/ WireReadNickname(c) \/ StartPumps(c)
  \/ \E c \in Conn : PeerSend(c)
  \/ \E c \in Conn : WireReadLine(c) \/ ReadPumpClose(c)
  \/ \E c \in Conn : WriteMessage(c) \/ WriteClosed(c)

NameSpec == NameInit /\ [][NameNext]_vars

\* ---------------------------------------------------------------------
\* Partial lines: the peer of connection 1 gives its name, sends a line, in
\* one piece or in two, and then some bytes without a newline; the peers of
\* the other connections send a name without a newline.  The steps are those
\* of NameSpec.
\* ---------------------------------------------------------------------

\* what the peer of connection 1 sends, piece by piece
PartialScripts ==
  { << <<"a", LF>>, <<"a", LF>>, <<"a">> >>,
    << <<"a", LF>>, <<"a">>, <<LF>>, <<"a">> >>,
    << <<"a", LF>>, <<"a">> >> }

\* a name that is not followed by a newline
PartialName == << <<"a">> >>

PartialInit ==
  /\ Started
  /\ Listening
  /\ \E sc \in PartialScripts :
       script = [c \in Conn |-> IF c \in Wired THEN sc ELSE PartialName]

PartialSpec == PartialInit /\ [][NameNext]_vars

\* ---------------------------------------------------------------------
\* The server process: main (cmd/server/main.go) and Server.Start
\* (server.go).  The accepted connections are followed through the part
\* of handleConnection that does not involve the Hub.
\* ---------------------------------------------------------------------

MaxAcceptErrs == 2   \* failed calls of listener.Accept() in a run

\* the process has not exited
Running == mainPc = "select"

\* net.Listen("tcp", s.address); on error Start returns it, and the
\* goroutine of main puts it on errChan (buffered, never full)
Listen ==
  /\ Running
  /\ startPc = "listen"
  /\ \/ /\ startPc' = "accept"
        /\ UNCHANGED errChan
     \/ /\ startPc' = "returned"
        /\ errChan' = Append(errChan, "listen")
  /\ UNCHANGED <<hubVars, chanVars, hc, rp, wp, connVars, histVars>>
  /\ UNCHANGED <<timeVars, wireVars, acceptErrs, mainPc, cliVars>>

\* a bug: a failed accept ends the loop and Start returns the error
AcceptFailReturns ==
  /\ Running
  /\ startPc = "accept"
  /\ acceptErrs < MaxAcceptErrs
  /\ startPc' = "returned"
  /\ errChan' = Append(errChan, "accept")
  /\ UNCHANGED <<hubVars, chanVars, hc, rp, wp, connVars, histVars>>
  /\ UNCHANGED <<timeVars, wireVars, acceptErrs, mainPc, cliVars>>

\* listener.Accept() returned an error: slog.Error(...); continue
AcceptFail ==
  /\ Running
  /\ startPc = "accept"
  /\ acceptErrs < MaxAcceptErrs
  /\ acceptErrs' = acceptErrs + 1
  /\ UNCHANGED <<hubVars, chanVars, hc, rp, wp, connVars, histVars>>
  /\ UNCHANGED <<timeVars, wireVars, startPc, errChan, mainPc, cliVars>>

\* case err := <-errChan: slog.Error("Server failed"); os.Exit(1)
MainError ==
  /\ Running
  /\ errChan # <<>>
  /\ errChan' = Tail(errChan)
  /\ mainPc' = "exit1"
  /\ UNCHANGED <<hubVars, chanVars, hc, rp, wp, connVars, histVars>>
  /\ UNCHANGED <<timeVars, wireVars, startPc, acceptErrs, cliVars>>

\* case <-ctx.Done(): SIGINT or SIGTERM; os.Exit(0)
MainSignal ==
  /\ Running
  /\ mainPc' = "exit0"
  /\ UNCHANGED <<hubVars, chanVars, hc, rp, wp, connVars, histVars>>
  /\ UNCHANGED <<timeVars, wireVars, startPc, acceptErrs, errChan, cliVars>>

\* the listener exists and listener.Close() has not run: the deferred call
\* of Server.Start runs when Start returns, and Start never returns from its
\* accept loop
ListenerOpen == startPc = "accept"

\* conn of c is open: accepted by the listener and not closed by the server
ConnOpen(c) == hc[c] # "idle" /\ ~connClosed[c]

\* the process is started: go chatServer.Start()
ListenInit ==
  /\ Started
  /\ startPc = "listen"
  /\ script = [c \in Conn |-> <<>>]

ListenNext ==
  \/ Listen
  \/ AcceptFail
  \/ MainError
  \/ MainSignal
  \/ \E c \in Conn : Running /\ Accept(c)
  \/ \E c \in Conn : Running /\ WritePrompt(c)
  \/ \E c \in Conn : Running /\ ReadNickname(c)

ListenSpec == ListenInit /\ [][ListenNext]_vars

\* ---------------------------------------------------------------------
\* The chat client process (cmd/client/main.go): main, readFromServer and
\* writeToServer, with the user at stdin and the server at the other end of
\* the conn.  The process is followed from the successful net.Dial on.
\* ---------------------------------------------------------------------

MaxTyped    == 2   \* lines the user types
MaxSrvLines == 2   \* lines the server sends to this client

\* everything that belongs to the server process
serverVars == <<hubVars, chanVars, hc, rp, wp, connVars, histVars, timeVars,
                wireVars, srvVars>>

\* main has not returned: its goroutines run
ClientRunning == cmain # "exited"

\* a bug: close(done) without the sync.Once
closeDoneTwice ==
  /\ once' = TRUE
  /\ doneCloses' = doneCloses + 1

\* closeDone: once.Do(func() { close(done) })
closeDone ==
  /\ once' = TRUE
  /\ doneCloses' = IF once THEN doneCloses ELSE doneCloses + 1

\* the server writes a line to the conn
ServerSends ==
  /\ ~srvClosed
  /\ srvSent < MaxSrvLines
  /\ srvSent' = srvSent + 1
  /\ inflight' = inflight + 1
  /\ UNCHANGED <<cmain, rtask, wtask, once, doneCloses, ctxDone, typed,
                 srvClosed, printed, eofAt>>
  /\ UNCHANGED serverVars

\* the server closes the conn
ServerCloses ==
  /\ ~srvClosed
  /\ srvClosed' = TRUE
  /\ UNCHANGED <<cmain, rtask, wtask, once, doneCloses, ctxDone, typed,
                 inflight, srvSent, printed, eofAt>>
  /\ UNCHANGED serverVars

\* the user presses Ctrl+C, or the process is sent SIGTERM
Signal ==
  /\ ClientRunning
  /\ ~ctxDone
  /\ ctxDone' = TRUE
  /\ UNCHANGED <<cmain, rtask, wtask, once, doneCloses, typed, inflight,
                 srvSent, srvClosed, printed, eofAt>>
  /\ UNCHANGED serverVars

\* io.Copy(os.Stdout, conn) in readFromServer: a line is printed; at the end
\* of the stream io.Copy returns
ReadFromServer ==
  /\ ClientRunning
  /\ rtask = "copy"
  /\ \/ /\ inflight > 0
        /\ inflight' = inflight - 1
        /\ printed' = printed + 1
        /\ UNCHANGED rtask
     \/ /\ inflight = 0
        /\ srvClosed
        /\ rtask' = "defer"
        /\ UNCHANGED <<inflight, printed>>
  /\ UNCHANGED <<cmain, wtask, once, doneCloses, ctxDone, typed, srvSent,
                 srvClosed, eofAt>>
  /\ UNCHANGED serverVars

\* defer done() of readFromServer
ReadDone ==
  /\ ClientRunning
  /\ rtask = "defer"
  /\ closeDone
  /\ rtask' = "returned"
  /\ UNCHANGED <<cmain, wtask, ctxDone, typed, inflight, srvSent, srvClosed,
                 printed, eofAt>>
  /\ UNCHANGED serverVars

\* io.Copy(conn, os.Stdin) in writeToServer: a line is sent; io.Copy returns
\* at the end of stdin (Ctrl+D), or with an error when the conn is closed
WriteToServer ==
  /\ ClientRunning
  /\ wtask = "copy"
  /\ \/ /\ typed < MaxTyped
        /\ ~srvClosed
        /\ typed' = typed + 1
        /\ UNCHANGED <<wtask, eofAt>>
     \/ /\ wtask' = "defer"
        /\ eofAt' = printed
        /\ UNCHANGED typed
     \/ /\ srvClosed
        /\ typed < MaxTyped
        /\ wtask' = "defer"
        /\ UNCHANGED <<typed, eofAt>>
  /\ UNCHANGED <<cmain, rtask, once, doneCloses, ctxDone, inflight, srvSent,
                 srvClosed, printed>>
  /\ UNCHANGED serverVars

\* defer done() of writeToServer
WriteDone ==
  /\ ClientRunning
  /\ wtask = "defer"
  /\ closeDone
  /\ wtask' = "returned"
  /\ UNCHANGED <<cmain, rtask, ctxDone, typed, inflight, srvSent, srvClosed,
                 printed, eofAt>>
  /\ UNCHANGED serverVars

\* select { case <-ctx.Done(): ... case <-done: ...; time.Sleep(...) }
MainSelect ==
  /\ cmain = "select"
  /\ \/ /\ ctxDone
        /\ cmain' = "exited"
     \/ /\ doneCloses > 0
        /\ cmain' = "sleep"
  /\ UNCHANGED <<rtask, wtask, once, doneCloses, ctxDone, typed, inflight,
                 srvSent, srvClosed, printed, eofAt>>
  /\ UNCHANGED serverVars

\* the time.Sleep of 100 ms is over: main returns and the process ends
MainReturn ==
  /\ cmain = "sleep"
  /\ cmain' = "exited"
  /\ UNCHANGED <<rtask, wtask, once, doneCloses, ctxDone, typed, inflight,
                 srvSent, srvClosed, printed, eofAt>>
  /\ UNCHANGED serverVars

ClientNext ==
  \/ ServerSends
  \/ ServerCloses
  \/ Signal
  \/ ReadFromServer
  \/ ReadDone
  \/ WriteToServer
  \/ WriteDone
  \/ MainSelect
  \/ MainReturn

ClientSpec == Init /\ [][ClientNext]_vars

\* ---------------------------------------------------------------------
\* Properties
\* ---------------------------------------------------------------------

Range(q) == {q[i] : i \in DOMAIN q}

\* copies of message m ever queued on c.send
Copies(c, m) == Cardinality({j \in DOMAIN enq[c] : enq[c][j] = m})

\* the range loop of the i-th broadcast is over
Completed(i) == i < Len(hubLog) \/ hubPc \notin {"broadcast", "panic"}

\* the clients the i-th broadcast found registered and with room in the queue
\* when the loop tried them
Served(i) == hubLog[i].regs \ hubLog[i].full

Visits(c) == hubPc = "broadcast" /\ c \in hubTodo /\ c \notin hubTodo'

\* C2: an endpoint whose queue is full when the range loop of a Broadcast
\* reaches it is, in that same step, removed from the registered set and its
\* queue closed, with no other endpoint touched; and once that Broadcast is
\* processed every other endpoint that was registered and had room has the
\* message.
C2_Eviction ==
  /\ [][\A c \in Conn :
          (Visits(c) /\ Len(send[c]) >= SendCap) =>
            /\ c \in clients /\ c \notin clients'
            /\ closes[c] = 0 /\ closes'[c] = 1
            /\ hubPc' = "broadcast"
            /\ \A d \in Conn \ {c} :
                 /\ send'[d] = send[d]
                 /\ closes'[d] = closes[d]
                 /\ (d \in clients') = (d \in clients)]_vars
  /\ [](\A i \in DOMAIN hubLog :
          (Completed(i) /\ hubLog[i].full # {}) =>
            /\ hubLog[i].full \cap clients = {}
            /\ \A d \in Served(i) : Copies(d, hubLog[i].msg) = 1)

\* a processed broadcast that evicted one endpoint and was queued for another
C2_Witness ==
  \E i \in DOMAIN hubLog :
    /\ Completed(i)
    /\ hubLog[i].full # {}
    /\ \A c \in hubLog[i].full : closes[c] = 1 /\ c \notin clients
    /\ \E d \in Served(i) : Copies(d, hubLog[i].msg) = 1

\* task of connection c is blocked in a send on one of the Hub's channels
Blocked(c) ==
  \/ hc[c] \in {"register", "join"}
  \/ rp[c] \in {"broadcast", "unregister"}

\* C3: the Hub never panics and, whenever it is not at its select, can take
\* its next step whatever the pumps do; so under fair scheduling of the Hub
\* every task blocked in a send on a Hub channel is eventually received, even
\* if no writePump ever drains its queue.
C3_HubNeverStalls ==
  /\ [](Alive /\ (hubPc # "select" => ENABLED HubStep))
  /\ [](\A c \in Conn : (Blocked(c) /\ hubPc = "select") => ENABLED HubRecv(c))
  /\ \A c \in Conn : Blocked(c) ~> ~Blocked(c)

\* the Hub has received a chat message while another endpoint's queue is full
\* and its writePump has not drained it
C3_Witness ==
  \E c, d \in Conn :
    /\ c # d
    /\ hubPc = "broadcast" /\ hubMsg = ChatMsg(c, nread[c])
    /\ d \in clients /\ Len(send[d]) >= SendCap /\ wp[d] = "select"

\* the Hub finishes the unregister case in this step
HandlesUnregister == hubPc = "unregister" /\ hubPc' # "unregister"

\* C4: handling an Unregister for an endpoint that is not in the registered
\* set changes neither the set nor any queue, closes nothing and does not panic.
C4_UnregisterIdempotent ==
  [][(HandlesUnregister /\ hubClient \notin clients) =>
       /\ clients' = clients
       /\ send' = send
       /\ closes' = closes
       /\ hubPc' = "select"]_vars

\* endpoint c was evicted by a broadcast
Evicted(c) == \E i \in DOMAIN hubLog : c \in hubLog[i].full

\* the Hub has received and handled c's Unregister
Unregistered(c) == rp[c] \in {"close", "done"} /\ hubClient # c

\* an evicted endpoint whose later Unregister the Hub has handled
C4_Witness ==
  \E c \in Conn : Evicted(c) /\ Unregistered(c) /\ closes[c] = 1 /\ Alive

\* no Acceptor task or pump moves in this step
NoTaskStep ==
  /\ hc' = hc /\ rp' = rp /\ wp' = wp
  /\ connClosed' = connClosed /\ out' = out /\ nread' = nread /\ nticks' = nticks

\* a step in which the Hub executes one of its cases
HubCaseStep == hubPc \in {"register", "unregister", "broadcast"} /\ NoTaskStep

\* C5: a queue is never closed twice; it is closed only in a step of the Hub,
\* and in exactly the steps that remove its endpoint from the registered set.
C5_ClosedOnce ==
  /\ [](\A c \in Conn : closes[c] <= 1)
  /\ [][\A c \in Conn :
          /\ closes'[c] # closes[c] =>
               /\ HubCaseStep
               /\ closes[c] = 0 /\ closes'[c] = 1
               /\ c \in clients /\ c \notin clients'
          /\ (c \in clients /\ c \notin clients') => closes'[c] = closes[c] + 1]_vars

\* both ways of closing have happened: one endpoint was closed by its own
\* Unregister, another by eviction followed by its (ignored) Unregister
C5_Witness ==
  \E c, d \in Conn :
    /\ ~Evicted(c) /\ Unregistered(c) /\ closes[c] = 1 /\ nreg[c] = 1
    /\ Evicted(d) /\ Unregistered(d) /\ closes[d] = 1

\* C6: the registered set changes only in a step in which the Hub executes a
\* case of its select and no Acceptor task or pump moves; the sends on the
\* three channels leave it unchanged.
C6_SingleOwner ==
  [][/\ clients' # clients => HubCaseStep
     /\ ~NoTaskStep => clients' = clients]_vars

\* an endpoint has gone through registration and removal and both its pumps
\* have run to their end
C6_Witness ==
  \E c \in Conn :
    nreg[c] = 1 /\ c \notin clients /\ rp[c] = "done" /\ wp[c] = "done"

\* the broadcast messages written to c's stream, in order
Delivered(c) == SelectSeq(out[c], LAMBDA x : x.kind \in {"join", "chat"})

\* position of message m in the Hub's order of receipt
Pos(m) == CHOOSE i \in DOMAIN hubLog : hubLog[i].msg = m

\* C7: the broadcast messages written to an endpoint's stream are messages the
\* Hub received, in the Hub's order of receipt, with none skipped between two
\* written ones.
C7_DeliveryOrder ==
  \A c \in Conn :
    LET D == Delivered(c) IN
      /\ \A k \in DOMAIN D : \E i \in DOMAIN hubLog : hubLog[i].msg = D[k]
      /\ \A k \in 1 .. Len(D) - 1 : Pos(D[k + 1]) = Pos(D[k]) + 1

\* an endpoint has been written three broadcasts of two senders
C7_Witness ==
  \E c \in Conn :
    /\ Len(Delivered(c)) >= 3
    /\ \E k \in DOMAIN Delivered(c) : Delivered(c)[k].from # c

\* a notice that endpoint c has left
LeaveMsg(c) == Line("leave", c, 0)

\* handleConnection and both pumps of c have returned
Gone(c) == hc[c] = "done" /\ rp[c] = "done" /\ wp[c] = "done"

\* nothing is pending at the Hub: it is at its select and no broadcast is
\* waiting to be received
HubQuiet == hubPc = "select" /\ \A c \in Conn : hc[c] # "join" /\ rp[c] # "broadcast"

\* C8: when a registered endpoint b has disconnected and the Hub has nothing
\* left to process, every endpoint that was registered with b and still is
\* registered has been queued a notice that b has left.
C8_LeaveNotice ==
  \A a, b \in Conn :
    (/\ a # b
     /\ Gone(b) /\ ~Evicted(b) /\ HubQuiet
     /\ a \in clients
     /\ JoinMsg(b) \in Range(enq[a]))
      => LeaveMsg(b) \in Range(enq[a])

\* C9: every endpoint in the registered set has an open queue, the range loop
\* only visits registered endpoints, the Hub never sends on a closed queue,
\* and nothing is queued for an endpoint that is not in the registered set.
C9_NoDeliveryAfterUnregister ==
  /\ [](/\ Alive
        /\ hubTodo \subseteq clients
        /\ \A c \in clients : closes[c] = 0)
  /\ [][\A c \in Conn : c \notin clients => enq'[c] = enq[c]]_vars

\* a broadcast was processed after an endpoint had been removed, and reached
\* another endpoint
C9_Witness ==
  \E i \in DOMAIN hubLog : \E c \in Conn :
    /\ Completed(i)
    /\ closes[c] = 1 /\ JoinMsg(c) \in Range(enq[c])
    /\ c \notin hubLog[i].regs /\ Pos(JoinMsg(c)) < i
    /\ Served(i) # {}

\* C10: the Hub handles at most one Register per endpoint, and an endpoint
\* that has been removed from the registered set is never a member again.
C10_NoReRegistration ==
  /\ [](\A c \in Conn : nreg[c] <= 1)
  /\ [][\A c \in Conn :
          (nreg[c] >= 1 /\ c \notin clients) => c \notin clients']_vars

\* an endpoint was removed by eviction, its readPump has since sent its
\* Unregister and returned, and the Hub is back at its select
C10_Witness ==
  \E c \in Conn :
    /\ nreg[c] = 1 /\ c \notin clients /\ Evicted(c)
    /\ rp[c] = "done" /\ hubPc = "select"

\* the Hub's select receives c's Unregister in this step
RecvUnregister(c) == hubPc = "select" /\ hubPc' = "unregister" /\ hubClient' = c

\* chat messages of c the Hub has received
ChatsFrom(c) ==
  Cardinality({i \in DOMAIN hubLog :
                 hubLog[i].msg.kind = "chat" /\ hubLog[i].msg.from = c})

\* C13: a failed read sends nothing on the broadcast channel and leads to the
\* deferred Unregister; the Hub receives an Unregister for an endpoint exactly
\* in the one step in which that endpoint's readPump completes its deferred
\* send; only after that step does readPump close the stream and return; and
\* the Hub has received exactly one chat message per line read successfully.
C13_ReadFailureExit ==
  /\ [][\A c \in Conn :
          /\ RecvUnregister(c) <=> (rp[c] = "unregister" /\ rp'[c] = "close")
          /\ (rp[c] = "read" /\ rp'[c] # "read") =>
               \/ rp'[c] = "broadcast" /\ nread'[c] = nread[c] + 1
               \/ /\ rp'[c] = "unregister"
                  /\ nread' = nread /\ hubLog' = hubLog /\ hubPc' = hubPc
                  /\ connClosed' = connClosed
          /\ (rp[c] = "unregister" /\ rp'[c] # "unregister") => rp'[c] = "close"
          /\ (rp'[c] = "close" /\ rp[c] # "close") => RecvUnregister(c)
          /\ (rp[c] = "close" /\ rp'[c] # "close") =>
               rp'[c] = "done" /\ connClosed'[c]
          /\ (rp'[c] = "done" /\ rp[c] # "done") => rp[c] = "close"
          /\ rp[c] = "done" => rp'[c] = "done"]_vars
  /\ [](\A c \in Conn :
          ChatsFrom(c) + (IF rp[c] = "broadcast" THEN 1 ELSE 0) = nread[c])

\* an endpoint's line was broadcast, its next read failed, the Hub handled its
\* Unregister by closing its queue, and readPump has closed the stream
C13_Witness ==
  \E c \in Conn :
    /\ nread[c] = 1 /\ ChatsFrom(c) = 1
    /\ rp[c] = "done" /\ connClosed[c]
    /\ ~Evicted(c) /\ closes[c] = 1 /\ c \notin clients

\* writePump of c returns in this step because a write failed (its other way
\* out is the closed-queue branch: queue empty and closed, no tick consumed)
WriteFails(c) ==
  /\ wp[c] = "select" /\ wp'[c] = "done"
  /\ ~(send[c] = <<>> /\ closes[c] > 0 /\ nticks' = nticks)

\* the step of a failed write ends c's writePump and closes c's stream, and
\* touches nothing else: the Hub, the registered set, the other tasks, the
\* other streams, and every queue but for the message c's pump had taken
WriteFailureIsolated ==
  \A c \in Conn : WriteFails(c) =>
    /\ connClosed'[c]
    /\ hubVars' = hubVars /\ closes' = closes
    /\ hc' = hc /\ rp' = rp /\ out' = out
    /\ send'[c] = send[c] \/ (send[c] # <<>> /\ send'[c] = Tail(send[c]))
    /\ \A d \in Conn \ {c} :
         /\ send'[d] = send[d] /\ wp'[d] = wp[d]
         /\ connClosed'[d] = connClosed[d]

\* writePump of c has returned on a failed write and c is still registered
\* (the closed-queue branch is only taken for a removed endpoint)
WriteFailedRegistered(c) == wp[c] = "done" /\ c \in clients

\* the Hub handles c's own Unregister in this step
OwnUnregister(c) == hubPc = "unregister" /\ hubClient = c

\* C14 as stated: a failed write is isolated, and the endpoint then stays
\* registered until the Hub handles the Unregister of its own readPump.
C14_StaysRegistered ==
  /\ [][WriteFailureIsolated]_vars
  /\ [][\A c \in Conn :
          (WriteFailedRegistered(c) /\ c \notin clients') => OwnUnregister(c)]_vars

\* C14, amended: a failed write is isolated, and the endpoint then stays
\* registered until the Hub either handles the Unregister of its own readPump
\* or, visiting it in the range loop of a Broadcast, finds its queue (which no
\* pump drains any more) full and evicts it.
C14_WriteFailureIsolation ==
  /\ [][WriteFailureIsolated]_vars
  /\ [][\A c \in Conn :
          (WriteFailedRegistered(c) /\ c \notin clients') =>
            \/ OwnUnregister(c)
            \/ Visits(c) /\ Len(send[c]) >= SendCap]_vars

\* an endpoint's write has failed, it is still registered while its readPump,
\* whose read has failed, waits to send Unregister, and another endpoint is
\* registered with its stream open and its writePump running
C14_Witness ==
  \E c, d \in Conn :
    /\ c # d
    /\ WriteFailedRegistered(c) /\ rp[c] = "unregister" /\ connClosed[c]
    /\ d \in clients /\ wp[d] = "select" /\ ~connClosed[d]

\* writePump of c finds its queue closed and empty in this step, and returns
TakesClosed(c) ==
  /\ wp[c] = "select" /\ wp'[c] = "done"
  /\ send[c] = <<>> /\ closes[c] > 0 /\ nticks' = nticks

\* nothing is written to a stream once its writePump has returned
NoWriteAfterReturn == \A c \in Conn : wp[c] = "done" => out'[c] = out[c]

\* C15 as stated: once the Hub has closed c's queue, c's writePump returns only
\* after it has written every queued message, in order, and then the notice;
\* nothing is written after that.
C15_NoticeAlways ==
  /\ [][\A c \in Conn :
          (closes[c] > 0 /\ wp[c] = "select" /\ wp'[c] = "done") =>
            /\ send[c] = <<>>
            /\ Delivered(c) = enq[c]
            /\ out'[c] = Append(out[c], Notice)]_vars
  /\ [][NoWriteAfterReturn]_vars

\* C15, amended: writePump takes the closed-queue branch only when the closed
\* queue is empty, every message ever queued having been written in order; it
\* then writes the notice or, if that write fails, nothing, closes the stream
\* and returns.  A notice on a stream is its last item and the only notice,
\* and nothing is written once the pump has returned.
C15_ForcedNotice ==
  /\ [][\A c \in Conn :
          TakesClosed(c) =>
            /\ Delivered(c) = enq[c]
            /\ out'[c] = Append(out[c], Notice) \/ out'[c] = out[c]
            /\ connClosed[c] => out'[c] = out[c]
            /\ connClosed'[c]]_vars
  /\ [][NoWriteAfterReturn]_vars
  /\ [](\A c \in Conn :
          Notice \in Range(out[c]) =>
            /\ out[c][Len(out[c])] = Notice
            /\ Cardinality({k \in DOMAIN out[c] : out[c][k] = Notice}) = 1
            /\ wp[c] = "done" /\ connClosed[c]
            /\ closes[c] = 1 /\ send[c] = <<>>
            /\ Delivered(c) = enq[c])

\* an evicted endpoint was written the messages of its full queue and then
\* the notice
C15_Witness ==
  \E c \in Conn :
    /\ Evicted(c)
    /\ Len(Delivered(c)) >= SendCap
    /\ out[c][Len(out[c])] = Notice

\* the handshake of c fails in this step
HandshakeFails(c) == hc[c] # "failed" /\ hc'[c] = "failed"

\* C17: a handshake fails only at the prompt write or the nickname read; the
\* failing step closes the connection and leaves the Hub, the registered set,
\* every queue and the history of Hub events unchanged; the task is then over,
\* so that no Register, Unregister or Broadcast is ever sent for the
\* connection and no pump is started; and before the pumps start a connection
\* is closed only by such a failure.
C17_HandshakeFailure ==
  /\ [][\A c \in Conn :
          /\ HandshakeFails(c) =>
               /\ hc[c] \in {"prompt", "nickname"}
               /\ connClosed'[c]
               /\ hubVars' = hubVars /\ chanVars' = chanVars
               /\ histVars' = histVars /\ rp' = rp /\ wp' = wp
          /\ hc[c] = "failed" => hc'[c] = "failed"]_vars
  /\ [](\A c \in Conn :
          /\ hc[c] = "failed" =>
               /\ connClosed[c]
               /\ nreg[c] = 0 /\ c \notin clients /\ hubClient # c
               /\ send[c] = <<>> /\ enq[c] = <<>> /\ closes[c] = 0
               /\ rp[c] = "none" /\ wp[c] = "none"
               /\ \A i \in DOMAIN hubLog : hubLog[i].msg.from # c
          /\ (connClosed[c] /\ rp[c] = "none") => hc[c] = "failed")

\* a handshake failed at the nickname read, after the prompt was written,
\* while another endpoint was registered with a message in its queue
C17_Witness ==
  \E c, d \in Conn :
    /\ c # d
    /\ hc[c] = "failed" /\ out[c] = <<Prompt>>
    /\ d \in clients /\ send[d] # <<>>

\* the Hub has received the join notice of c
JoinReceived(c) == \E i \in DOMAIN hubLog : hubLog[i].msg = JoinMsg(c)

\* the Hub handled c's Register before it received c's join notice, the pumps
\* of c were started only after the Hub had received the join notice, and
\* the join notice of c precedes every chat message of c in the Hub's order
HandshakeOrder ==
  \A c \in Conn :
    /\ JoinReceived(c) <=> hc[c] \in {"start", "done"}
    /\ JoinReceived(c) => nreg[c] = 1
    /\ hc[c] \in {"idle", "prompt", "nickname", "register"} => nreg[c] = 0
    /\ (rp[c] # "none" \/ wp[c] # "none") => JoinReceived(c)
    /\ \A i \in DOMAIN hubLog :
         (hubLog[i].msg.kind = "chat" /\ hubLog[i].msg.from = c) =>
           JoinReceived(c) /\ Pos(JoinMsg(c)) < i

\* C16 as stated: the handshake order holds, hence every endpoint is in the
\* registered set when the Hub receives its join notice.
C16_JoinerRegistered ==
  /\ HandshakeOrder
  /\ \A i \in DOMAIN hubLog :
       hubLog[i].msg.kind = "join" => hubLog[i].msg.from \in hubLog[i].regs

\* C16, amended: the handshake order holds, and an endpoint is in the
\* registered set when the Hub receives its join notice unless an earlier
\* Broadcast found its queue, which no pump drains before the join notice is
\* received, full and evicted it.
C16_HandshakeOrder ==
  /\ HandshakeOrder
  /\ \A i \in DOMAIN hubLog :
       hubLog[i].msg.kind = "join" =>
         \/ hubLog[i].msg.from \in hubLog[i].regs
         \/ \E j \in 1 .. i - 1 : hubLog[i].msg.from \in hubLog[j].full

\* an endpoint joined while another was registered, was registered when its
\* join notice was received, and a chat message of it followed
C16_Witness ==
  \E c \in Conn : \E i, j \in DOMAIN hubLog :
    /\ i < j
    /\ hubLog[i].msg = JoinMsg(c) /\ hubLog[i].regs = Conn
    /\ hubLog[j].msg.kind = "chat" /\ hubLog[j].msg.from = c

\* when the pumps of c were started, from the ticker's schedule
StartedAt(c) == tickAt[c] - (nticks[c] + 1) * pingPeriod

\* readPump of c leaves its loop on a timeout in this step
TimesOut(c) == why[c] # "timeout" /\ why'[c] = "timeout"

\* readPump of c starts, or ReadBytes returns a line to it, in this step
ReadRestarts(c) ==
  \/ rp[c] = "none" /\ rp'[c] = "read"
  \/ rp[c] = "read" /\ rp'[c] = "broadcast"

\* C11: the read deadline of a running readPump is always pongWait = 60
\* seconds after the pump started or last read a complete line; exactly the
\* start and each successful read restart it; readPump leaves its loop on a
\* timeout (and goes on to send Unregister) only when those 60 seconds have
\* elapsed, never earlier; and time does not pass the deadline while the pump
\* is blocked in the read.
C11_IdleTimeout ==
  /\ [](/\ pongWait = 60
        /\ \A c \in Conn : rp[c] # "none" => deadline[c] = idleFrom[c] + pongWait)
  /\ [][\A c \in Conn :
          /\ ReadRestarts(c) => idleFrom'[c] = now /\ deadline'[c] = now + pongWait
          /\ ~ReadRestarts(c) =>
               idleFrom'[c] = idleFrom[c] /\ deadline'[c] = deadline[c]
          /\ TimesOut(c) =>
               /\ now >= idleFrom[c] + pongWait
               /\ rp[c] = "read" /\ rp'[c] = "unregister"
          /\ (now' > now /\ rp[c] = "read") => now < idleFrom[c] + pongWait]_vars

\* a peer sent one line some time after the pumps started and then nothing:
\* readPump timed out 60 seconds after that line, after a probe was written
C11_Witness ==
  \E c \in Conn :
    /\ why[c] = "timeout" /\ nread[c] = 1
    /\ idleFrom[c] > StartedAt(c)
    /\ now = idleFrom[c] + pongWait
    /\ nticks[c] >= 1

\* writePump of c handles a tick in this step
Ticks(c) == nticks'[c] # nticks[c]

\* writePump of c writes a probe in this step
Probes(c) == out'[c] = Append(out[c], Ping)

\* C12: the keepalive period is 54 seconds, nine tenths of the read deadline
\* and shorter than it.  Each tick is handled at the instant it is due, one
\* period after the previous one (the first one a period after the pumps
\* started), whatever messages the Hub queues; it writes a probe or, if the
\* write fails, ends the pump; a written probe leaves the pump running, the
\* stream open, the Hub, the registered set and the read deadline unchanged.
\* A peer that has sent no line is written its first probe while its readPump
\* has not timed out, and is not timed out before that probe while its
\* writePump runs.
C12_Keepalive ==
  /\ [](/\ pingPeriod = 54 /\ 10 * pingPeriod = 9 * pongWait
        /\ pingPeriod < pongWait
        /\ \A c \in Conn :
             (wp[c] = "select" /\ nread[c] = 0) =>
               /\ tickAt[c] = idleFrom[c] + (nticks[c] + 1) * pingPeriod
               /\ now <= tickAt[c])
  /\ [][\A c \in Conn :
          /\ Ticks(c) =>
               /\ now = tickAt[c]
               /\ nticks'[c] = nticks[c] + 1
               /\ tickAt'[c] = tickAt[c] + pingPeriod
               /\ \/ Probes(c) /\ wp'[c] = "select" /\ connClosed' = connClosed
                  \/ out' = out /\ wp'[c] = "done" /\ connClosed'[c]
               /\ hubVars' = hubVars /\ chanVars' = chanVars
               /\ rp' = rp /\ deadline' = deadline
          /\ Probes(c) => Ticks(c) /\ ~connClosed[c]
          /\ (Probes(c) /\ nticks[c] = 0) => why[c] # "timeout"
          /\ (now' > now /\ wp[c] = "select") => now < tickAt[c]
          /\ (TimesOut(c) /\ nread[c] = 0 /\ wp[c] = "select") =>
               Ping \in Range(out[c])]_vars

\* a peer that has sent no line was written its first probe one period after
\* the pumps started, and is still registered with its stream open
C12_Witness ==
  \E c \in Conn :
    /\ nread[c] = 0 /\ nticks[c] = 1
    /\ out[c] # <<>> /\ out[c][Len(out[c])] = Ping
    /\ now = idleFrom[c] + pingPeriod
    /\ rp[c] = "read" /\ wp[c] = "select"
    /\ ~connClosed[c] /\ c \in clients

\* the bytes of the chat messages of c the Hub has received, in order
HubChats(c) ==
  LET L == SelectSeq(hubLog, LAMBDA e : e.msg.kind = "chat" /\ e.msg.from = c)
  IN [k \in 1 .. Len(L) |-> L[k].msg.n]

\* the messages readPump of c has built, in order: those the Hub has received
\* and the one it is sending
Built(c) == HubChats(c) \o (IF rp[c] = "broadcast" THEN <<message[c]>> ELSE <<>>)

\* number of newlines in a byte sequence
Newlines(b) == Cardinality({i \in DOMAIN b : b[i] = LF})

Whitespace == {" ", "\r", "\t", LF}

\* a byte sequence without its trailing whitespace
RECURSIVE TrimRight(_)
TrimRight(t) ==
  IF t # <<>> /\ t[Len(t)] \in Whitespace
    THEN TrimRight(SubSeq(t, 1, Len(t) - 1))
    ELSE t

\* C19: once the name line is read, the nickname is the peer's first line
\* without its newline and trailing whitespace, and that name is the one in
\* the join notice.
C19_NameTrimmed ==
  \A c \in Wired :
    /\ hc[c] \in {"register", "join", "start", "done"} =>
         nickname[c] = TrimRight(script[c][1])
    /\ \A i \in DOMAIN hubLog :
         (hubLog[i].msg.kind = "join" /\ hubLog[i].msg.from = c) =>
           hubLog[i].msg.n = JoinText(TrimRight(script[c][1]))

RECURSIVE Concat(_)
Concat(ls) == IF ls = <<>> THEN <<>> ELSE Head(ls) \o Concat(Tail(ls))

\* C20: while the connection is open and readPump runs, the lines readPump
\* has read, followed by the bytes it holds and those waiting on the
\* connection, are the lines the peer has sent after its name line; and one
\* message was built per line read.
C20_NoLineLost ==
  \A c \in Wired :
    (rp[c] \in {"read", "broadcast"} /\ ~connClosed[c]) =>
      /\ Concat(lineLog[c]) \o rdBuf[c] \o sock[c]
           = Concat(SubSeq(script[c], 2, nsent[c]))
      /\ Len(Built(c)) = Len(lineLog[c])

\* ---------------------------------------------------------------------
\* C21
\* ---------------------------------------------------------------------

\* a step in which Server.Start returns
StartReturns == startPc # "returned" /\ startPc' = "returned"

\* a step in which a failed accept is logged
AcceptErrorLogged == acceptErrs' # acceptErrs

\* C21: a failed accept is not fatal: it is logged and the accept loop goes on
\* (Start stays in the loop, nothing is put on errChan, main does not exit
\* because of it); once the listener exists the loop is never left; and Start
\* returns only from the failed creation of the listener, with that error.
C21_AcceptNotFatal ==
  [][ /\ AcceptErrorLogged =>
           /\ acceptErrs' = acceptErrs + 1
           /\ startPc = "accept" /\ startPc' = "accept"
           /\ errChan' = errChan
           /\ mainPc' = mainPc
      /\ startPc = "accept" => startPc' = "accept"
      /\ StartReturns =>
           /\ startPc = "listen"
           /\ errChan' = Append(errChan, "listen")
      /\ mainPc' = "exit1" => mainPc = "exit1" \/ Head(errChan) = "listen"
    ]_vars

\* every accept has failed so far that could, the loop is still running and
\* the next connection can be accepted
C21_Witness ==
  /\ acceptErrs = MaxAcceptErrs
  /\ startPc = "accept"
  /\ Running
  /\ \E c \in Conn : hc[c] = "idle" /\ ENABLED Accept(c)
  /\ \E c \in Conn : hc[c] = "register"

\* ---------------------------------------------------------------------
\* C22
\* ---------------------------------------------------------------------

\* handleConnection of c is blocked in a read or a write on its conn
Stalled(c) == hc[c] \in {"prompt", "nickname"}

\* c has been registered and has been sent the notice of its own arrival
ServedTo(c) == nreg[c] > 0 /\ JoinMsg(c) \in Range(out[c])

\* C22: the accept loop and the handling of a connection never wait for
\* another connection: a connection that has not been accepted can be, and
\* each step of a handshake can be taken as soon as its own connection is
\* there and, for the two sends to the Hub, the Hub is at its select, which
\* the Hub always comes back to on its own; whatever the other connections
\* are doing, stalled in their handshake or in their pumps.
C22_AcceptNeverBlocks ==
  Alive =>
    /\ \A d \in Conn :
         /\ hc[d] = "idle" => ENABLED Accept(d)
         /\ hc[d] = "prompt" => ENABLED WritePrompt(d)
         /\ hc[d] = "nickname" => ENABLED ReadNickname(d)
         /\ hc[d] = "register" /\ hubPc = "select" => ENABLED SendRegister(d)
         /\ hc[d] = "join" /\ hubPc = "select" => ENABLED SendJoin(d)
         /\ hc[d] = "start" => ENABLED StartPumps(d)
    /\ hubPc # "select" => ENABLED HubStep

\* one connection is stalled in its handshake while another one has been
\* accepted, registered and served, and its readPump is reading
C22_Witness ==
  \E c, d \in Conn :
    /\ c # d
    /\ Stalled(c)
    /\ d \in clients
    /\ ServedTo(d)
    /\ rp[d] = "read"

\* ---------------------------------------------------------------------
\* C23
\* ---------------------------------------------------------------------

\* readPump has left its loop; writePump has returned
ReadPumpOver(c) == rp[c] \in {"unregister", "close", "done"}
WritePumpOver(c) == wp[c] = "done"

\* both pumps have returned, the conn is closed and the client is not in the map
TornDown(c) ==
  /\ rp[c] = "done"
  /\ wp[c] = "done"
  /\ connClosed[c]
  /\ c \notin clients

\* C23: once one of the two pumps of a client is over (readPump after a failed
\* read, writePump after a failed write or on the closed queue), eventually
\* both have returned, the conn is closed and the client is not registered.
\* The deferred calls of readPump wait for the Hub only, never for writePump,
\* and writePump's return waits for nothing.
C23_TeardownCompletes ==
  /\ \A c \in Conn : (ReadPumpOver(c) \/ WritePumpOver(c)) ~> TornDown(c)
  /\ [](\A c \in Conn :
         /\ rp[c] = "unregister" /\ hubPc = "select" => ENABLED SendUnregister(c)
         /\ rp[c] = "close" => ENABLED ReadPumpClose(c)
         /\ wp[c] = "select" /\ closes[c] > 0 =>
              ENABLED (WriteMessage(c) \/ WriteClosed(c)))

\* writePump is over first, and the teardown is complete: readPump was still
\* reading when writePump returned
C23_Witness ==
  \E c \in Conn :
    /\ TornDown(c)
    /\ Notice \notin Range(out[c])
    /\ nreg[c] > 0
    /\ \E d \in Conn \ {c} : TornDown(d) /\ Notice \in Range(out[d])

\* ---------------------------------------------------------------------
\* C24
\* ---------------------------------------------------------------------

\* c leaves the registered set in this step
Removed(c) == c \in clients /\ c \notin clients'

\* the Hub handles the Unregister it has received for c
OwnUnregisterStep(c) == hubPc = "unregister" /\ hubClient = c

\* the range loop of a Broadcast reaches c and finds its queue full
OwnFullQueueStep(c) == Visits(c) /\ Len(send[c]) >= SendCap

\* C24: a client leaves the registered set only in a step in which the Hub
\* handles that client's own Unregister, sent by its own readPump, or in which
\* the range loop of a Broadcast finds that client's own queue full; such a
\* step removes no other client, and a step of a handshake or of a pump,
\* failed or not, removes nobody.
C24_OwnPathsOnly ==
  /\ [][\A c \in Conn :
          /\ Removed(c) =>
               /\ OwnUnregisterStep(c) \/ OwnFullQueueStep(c)
               /\ \A d \in Conn \ {c} : ~Removed(d)
          /\ ~NoTaskStep => ~Removed(c)]_vars
  /\ [](hubPc = "unregister" => rp[hubClient] \in {"close", "done"})

\* a client has failed and has been removed, by its own Unregister, while the
\* other one, registered before the failure, is still registered and reading
C24_Witness ==
  \E c, d \in Conn :
    /\ c # d
    /\ nreg[c] = 1 /\ ~Evicted(c) /\ Unregistered(c) /\ c \notin clients
    /\ connClosed[c]
    /\ d \in clients /\ rp[d] = "read" /\ JoinMsg(c) \in Range(enq[d])

\* ---------------------------------------------------------------------
\* C25
\* ---------------------------------------------------------------------

\* a message is put on c's queue; one is taken from it; the queue is closed
Enqueues(c) == Len(send'[c]) > Len(send[c])
Dequeues(c) == Len(send'[c]) < Len(send[c])
Closes(c) == closes'[c] # closes[c]

\* the step is one of c's writePump alone: the Hub, the handshakes, the
\* readPumps and the other writePumps do not move
OwnWritePumpStep(c) ==
  /\ wp[c] = "select"
  /\ hubPc' = hubPc /\ hubTodo' = hubTodo /\ clients' = clients
  /\ hc' = hc /\ rp' = rp
  /\ \A d \in Conn \ {c} : wp'[d] = wp[d] /\ out'[d] = out[d]

\* C25: a message is put on a client's queue, and the queue is closed, only in
\* a step of the Hub's loop (the message is the one the Hub is broadcasting,
\* put at the tail); a message is taken from it only in a step of that
\* client's own writePump, which takes the head; and a queue only changes in
\* one of these ways.
C25_SingleProducerConsumer ==
  [][\A c \in Conn :
       /\ Enqueues(c) =>
            /\ HubCaseStep /\ hubPc = "broadcast"
            /\ send'[c] = Append(send[c], hubMsg)
       /\ Closes(c) => HubCaseStep
       /\ Dequeues(c) =>
            /\ OwnWritePumpStep(c)
            /\ send'[c] = Tail(send[c])
       /\ send'[c] # send[c] => Enqueues(c) \/ Dequeues(c)]_vars

\* a queue has been filled by the Hub, drained by its writePump and closed by
\* the Hub, while the other client's queue still holds a message
C25_Witness ==
  \E c, d \in Conn :
    /\ c # d
    /\ Len(enq[c]) >= 2 /\ send[c] = <<>> /\ closes[c] = 1
    /\ Len(Delivered(c)) >= 2
    /\ send[d] # <<>> /\ closes[d] = 0

\* ---------------------------------------------------------------------
\* C26
\* ---------------------------------------------------------------------

\* the i-th broadcast found c's queue full
Overflowed(i, c) == c \in hubLog[i].full

\* C26: a queue never holds more than its capacity (SendCap, 256 in the
\* code); the Hub holds no message but the one whose range loop it is running;
\* and a message that found a client's queue full was never put on that queue,
\* then or later: the client was removed and its queue closed instead.
C26_BoundedBuffering ==
  /\ \A c \in Conn : Len(send[c]) <= SendCap
  /\ hubPc # "broadcast" => hubMsg = NoMsg /\ hubTodo = {}
  /\ \A i \in DOMAIN hubLog : \A c \in Conn :
       Overflowed(i, c) =>
         /\ Copies(c, hubLog[i].msg) = 0
         /\ hubLog[i].msg \notin Range(send[c])
         /\ c \notin clients
         /\ closes[c] = 1

\* one queue is full and still open while a message that did not fit on the
\* other client's queue is gone and that client is evicted
C26_Witness ==
  \E c, d \in Conn : \E i \in DOMAIN hubLog :
    /\ c # d
    /\ Len(send[c]) = SendCap /\ c \in clients
    /\ Overflowed(i, d) /\ Completed(i)
    /\ hubLog[i].msg \in Range(send[c])

\* ---------------------------------------------------------------------
\* C27
\* ---------------------------------------------------------------------

\* c and d are two connections whose handshakes have read the same name
SameName(c, d) ==
  /\ c # d
  /\ hc[c] \in {"register", "join", "start", "done"}
  /\ hc[d] \in {"register", "join", "start", "done"}
  /\ nickname[c] = nickname[d]

\* the Hub has handled c's Register and has not removed c since
Member(c) == nreg[c] = 1 /\ ~Evicted(c) /\ ~Unregistered(c)

\* C27: two connections that gave the same name, empty or not, are two
\* members: each is in the registered set from its own Register to its own
\* removal; a broadcast that finds both registered is queued once for each
\* that has room; and the step that removes one leaves the other where it is.
C27_NamesNotIdentities ==
  /\ [](\A c, d \in Conn :
          SameName(c, d) =>
            /\ Member(c) => c \in clients
            /\ Member(c) /\ Member(d) => Cardinality(clients \cap {c, d}) = 2
            /\ \A i \in DOMAIN hubLog :
                 (Completed(i) /\ {c, d} \subseteq hubLog[i].regs) =>
                   \A e \in {c, d} \cap Served(i) : Copies(e, hubLog[i].msg) = 1)
  /\ [][\A c, d \in Conn :
          (SameName(c, d) /\ Removed(c)) => (d \in clients') = (d \in clients)]_vars

\* two clients with the empty name were registered together, a broadcast was
\* written to both, one was unregistered and the other is still registered
C27_Witness ==
  \E c, d \in Conn : \E i \in DOMAIN hubLog :
    /\ SameName(c, d)
    /\ nickname[c] = <<>>
    /\ {c, d} \subseteq hubLog[i].regs
    /\ hubLog[i].msg \in Range(out[c]) \cap Range(out[d])
    /\ nreg[c] = 1 /\ Unregistered(c) /\ ~Evicted(c) /\ c \notin clients
    /\ d \in clients

\* ---------------------------------------------------------------------
\* C28
\* ---------------------------------------------------------------------

\* the message readPump builds for the long line of the client named nick
LongMessage(nick) == <<"[">> \o nick \o <<"]", ":", " ">> \o LongLine

\* readPump of c takes a line from its reader in this step
TakesLine(c) == nread'[c] = nread[c] + 1

\* C28: a line longer than maxMessageSize bytes is read in one piece and
\* is neither refused nor cut: the step that reads it closes nothing and
\* goes on to the send to the Hub with a message that holds the whole line,
\* and every chat message the Hub receives, queues or that is written to a
\* conn holds the whole line, more than maxMessageSize bytes.
C28_SizeNotEnforced ==
  /\ [][\A c \in Wired :
          TakesLine(c) =>
            /\ lineLog'[c] = Append(lineLog[c], LongLine)
            /\ message'[c] = LongMessage(nickname[c])
            /\ rp'[c] = "broadcast"
            /\ connClosed'[c] = connClosed[c]
            /\ clients' = clients]_vars
  /\ [](\A c \in Wired :
          /\ \A k \in DOMAIN Built(c) : Built(c)[k] = LongMessage(nickname[c])
          /\ \A x \in Range(send[c]) \cup Range(out[c]) :
               x.kind = "chat" =>
                 /\ x.n = LongMessage(nickname[x.from])
                 /\ Len(x.n) > maxMessageSize)

\* the long line has come back to its sender in full, and the sender is still
\* connected and registered
C28_Witness ==
  \E c \in Wired :
    /\ Len(LongLine) > maxMessageSize
    /\ \E x \in Range(out[c]) : x.kind = "chat" /\ x.n = LongMessage(nickname[c])
    /\ c \in clients /\ ~connClosed[c] /\ rp[c] = "read" /\ wp[c] = "select"

\* ---------------------------------------------------------------------
\* C29
\* ---------------------------------------------------------------------

\* readFromServer or writeToServer has run its deferred done() and returned
TaskFinished == rtask = "returned" \/ wtask = "returned"

\* C29: done is closed at most once, whichever of readFromServer and
\* writeToServer returns first and however their deferred calls interleave;
\* it is closed as soon as one of them has returned; main is past its select
\* only if done was closed or a signal has arrived, and while it is at its
\* select with done closed or a signal arrived, it can go on.
C29_DoneClosedOnce ==
  /\ doneCloses <= 1
  /\ TaskFinished => doneCloses = 1
  /\ doneCloses = 1 => once
  /\ cmain # "select" => doneCloses = 1 \/ ctxDone
  /\ (cmain = "select" /\ (doneCloses = 1 \/ ctxDone)) => ENABLED MainSelect

\* both tasks have returned, each through its deferred done(), before main
\* has taken a step
C29_Witness ==
  /\ rtask = "returned"
  /\ wtask = "returned"
  /\ doneCloses = 1
  /\ cmain = "select"
  /\ ~ctxDone

\* ---------------------------------------------------------------------
\* C30
\* ---------------------------------------------------------------------

\* writeToServer has stopped because stdin ended
StdinEnded == eofAt >= 0

\* C30: after writeToServer has stopped because stdin ended, the client goes
\* on printing what the server sends: the process ends only once the server
\* has closed the conn or a signal has arrived.
C30_ReceivesAfterStdinEnd ==
  (StdinEnded /\ cmain = "exited") => (srvClosed \/ ctxDone)

\* ---------------------------------------------------------------------
\* C31
\* ---------------------------------------------------------------------

\* C31: when the server process exits with status 0 after a signal, the
\* deferred listener.Close() of Server.Start has run and every accepted
\* connection has been closed by its tasks.
C31_ShutdownClosesListener ==
  mainPc = "exit0" => (~ListenerOpen /\ \A c \in Conn : ~ConnOpen(c))

\* ---------------------------------------------------------------------
\* C32
\* ---------------------------------------------------------------------

\* the Hub receives a message on the broadcast channel in this step
ReceivesBroadcast == Len(hubLog') = Len(hubLog) + 1

\* C32: the Hub fans out whatever it receives on the broadcast channel,
\* whether its sender is registered or not: the range loop is started over the
\* whole registered set, and once it is over every client that was registered
\* and had room has the message; a readPump that has a message to send is
\* received whenever the Hub is at its select, registered or not.
C32_NoSenderCheck ==
  /\ [][ReceivesBroadcast =>
          /\ hubPc' = "broadcast"
          /\ hubTodo' = clients
          /\ hubLog'[Len(hubLog')].regs = clients]_vars
  /\ [](\A i \in DOMAIN hubLog :
          Completed(i) => \A d \in Served(i) : Copies(d, hubLog[i].msg) = 1)
  /\ [](\A c \in Conn :
          (rp[c] = "broadcast" /\ hubPc = "select") => ENABLED SendBroadcast(c))

\* a client was evicted with its conn still open; a line it sent afterwards
\* was received by the Hub and written to the other, registered, client
C32_Witness ==
  \E c, d \in Conn : \E i, j \in DOMAIN hubLog :
    /\ c # d
    /\ j < i
    /\ c \in hubLog[j].full
    /\ hubLog[i].msg.kind = "chat" /\ hubLog[i].msg.from = c
    /\ c \notin hubLog[i].regs /\ d \in hubLog[i].regs
    /\ hubLog[i].msg \in Range(out[d])

\* ---------------------------------------------------------------------
\* C33
\* ---------------------------------------------------------------------

\* something is written to the conn of c in this step
Writes(c) == out'[c] # out[c]

\* the peer of c has sent no line since its name
Silent(c) == nread[c] = 0

\* C33: a write to a conn, of a message or of a probe, never moves the read
\* deadline of that conn: the deadline only moves in a step in which readPump
\* starts or gets a complete line, and such a step writes nothing.  So the
\* readPump of a peer that sends no line times out exactly pongWait = 60
\* seconds after it started, whatever was written to the peer in between, and
\* is never still reading later than that.
C33_WritesKeepDeadline ==
  /\ [][\A c \in Conn :
          /\ Writes(c) =>
               /\ deadline'[c] = deadline[c]
               /\ idleFrom'[c] = idleFrom[c]
               /\ ~ReadRestarts(c)
          /\ deadline'[c] # deadline[c] => ReadRestarts(c) /\ ~Writes(c)
          /\ (TimesOut(c) /\ Silent(c)) =>
               /\ now = StartedAt(c) + pongWait
               /\ idleFrom[c] = StartedAt(c)]_vars
  /\ [](\A c \in Conn :
          (rp[c] = "read" /\ Silent(c)) =>
            /\ deadline[c] = StartedAt(c) + pongWait
            /\ now <= deadline[c])

\* a peer that sent no line has been written the join notice and a probe,
\* both with success, and its readPump has just timed out, 60 seconds after
\* it started, with the conn still open and writePump running
C33_Witness ==
  \E c \in Conn :
    /\ Silent(c)
    /\ why[c] = "timeout" /\ rp[c] = "unregister"
    /\ JoinMsg(c) \in Range(out[c]) /\ Ping \in Range(out[c])
    /\ ~connClosed[c] /\ wp[c] = "select"
    /\ now = idleFrom[c] + pongWait

\* ---------------------------------------------------------------------
\* C34
\* ---------------------------------------------------------------------

\* handleConnection of c has not started the pumps yet
InHandshake(c) == hc[c] \in {"prompt", "nickname", "register", "join", "start"}

\* the Hub has received the join notice of c
JoinSent(c) == \E i \in DOMAIN hubLog : hubLog[i].msg = JoinMsg(c)

\* C34: during the handshake no read deadline is set on the conn and no
\* timeout ends it: time passes freely, up to the end of the clock, while a
\* connection waits for its name.  The deadline is first set in the step that
\* starts the pumps, after the Hub has handled the Register and received the
\* join notice, and it is then pongWait from that instant.
C34_NoHandshakeDeadline ==
  /\ [](\A c \in Timed :
          /\ (hc[c] # "done") =>
               /\ deadline[c] = 0 /\ rp[c] = "none" /\ why[c] = "none"
          /\ (hc[c] \in {"prompt", "nickname"} /\ now + Quantum <= MaxTime) =>
               ENABLED Advance)
  /\ [][\A c \in Timed :
          /\ (InHandshake(c) /\ deadline'[c] # deadline[c]) =>
               /\ hc[c] = "start" /\ hc'[c] = "done"
               /\ nreg[c] = 1 /\ JoinSent(c)
               /\ rp'[c] = "read"
               /\ deadline'[c] = now + pongWait
          /\ (InHandshake(c) /\ connClosed'[c] # connClosed[c]) =>
               /\ hc'[c] = "failed"
               /\ why' = why]_vars

\* a connection has been waiting for its name for two idle periods and is
\* still open
C34_Witness ==
  \E c \in Timed :
    /\ hc[c] = "nickname"
    /\ now >= 2 * pongWait
    /\ ~connClosed[c]

\* ---------------------------------------------------------------------
\* C35
\* ---------------------------------------------------------------------

\* readPump of c gets a line from ReadBytes in this step
ReadsLine(c) == nread'[c] = nread[c] + 1

\* readPump of c completes its send on the broadcast channel in this step
HandsOver(c) == rp[c] = "broadcast" /\ rp'[c] # "broadcast"

\* messages of c that its readPump has built and the Hub has not received
Pending(c) == nread[c] - Len(HubChats(c))

\* C35: the Hub receives the messages of a sender in the order its lines were
\* read, none skipped; at most one message of a sender is waiting for the
\* Hub, exactly while its readPump is at the send; the pump reads a line only
\* when none is waiting; and the send is over in the very step in which the
\* Hub receives the message, the channel having no buffer.
C35_OrderAndBackpressure ==
  /\ [](\A c \in Conn :
          /\ \A k \in DOMAIN HubChats(c) : HubChats(c)[k] = k
          /\ Pending(c) = IF rp[c] = "broadcast" THEN 1 ELSE 0)
  /\ [][\A c \in Conn :
          /\ ReadsLine(c) => rp[c] = "read" /\ Pending(c) = 0
          /\ HandsOver(c) =>
               /\ ReceivesBroadcast
               /\ hubMsg' = ChatMsg(c, nread[c])
               /\ hubPc = "select"]_vars

\* a sender's two lines have been received by the Hub, in order, and the
\* second one was read only after the first was received
C35_Witness ==
  \E c \in Conn :
    /\ HubChats(c) = <<1, 2>>
    /\ rp[c] = "read"
    /\ Pending(c) = 0

\* ---------------------------------------------------------------------
\* C36
\* ---------------------------------------------------------------------

\* the Hub receives an Unregister in this step
ReceivesUnregister == hubPc = "select" /\ hubPc' = "unregister"

\* readPump of c has sent its Unregister
SentUnregister(c) == rp[c] \in {"close", "done"}

\* readPump of c completes its deferred send in this step
SendsUnregister(c) == rp[c] = "unregister" /\ rp'[c] = "close"

\* C36: the Hub receives an Unregister only in a step in which the readPump
\* of one client, that client, completes its deferred send, with no step of a
\* handshake or of a writePump; a readPump completes that send once, on its
\* way out, before it closes the conn and returns, so a client whose readPump
\* has returned has sent exactly one; a connection whose handshake failed
\* sends none; and an evicted client's send is received like any other, to be
\* ignored by the Hub.
C36_OneUnregister ==
  /\ [][/\ ReceivesUnregister =>
             /\ hubClient' \in Conn
             /\ SendsUnregister(hubClient')
             /\ \A d \in Conn \ {hubClient'} : rp'[d] = rp[d]
             /\ hc' = hc /\ wp' = wp
        /\ \A c \in Conn :
             /\ SendsUnregister(c) => ReceivesUnregister /\ hubClient' = c
             /\ SentUnregister(c) => SentUnregister(c)'
             /\ (rp'[c] = "close" /\ rp[c] # "close") => SendsUnregister(c)
             /\ (rp'[c] = "done" /\ rp[c] # "done") => rp[c] = "close"
             /\ (HandlesUnregister /\ hubClient = c /\ c \notin clients) =>
                  UNCHANGED <<clients, send, closes>> /\ hubPc' = "select"]_vars
  /\ [](\A c \in Conn :
          /\ hc[c] # "done" => rp[c] = "none"
          /\ (rp[c] = "unregister" /\ hubPc = "select") => ENABLED SendUnregister(c))

\* an evicted client's readPump has sent its Unregister, the Hub has handled
\* it, and both pumps have returned
C36_Witness ==
  \E c \in Conn :
    /\ Evicted(c)
    /\ Unregistered(c)
    /\ rp[c] = "done" /\ wp[c] = "done"
    /\ closes[c] = 1
    /\ hubPc = "select"

\* ---------------------------------------------------------------------
\* C37
\* ---------------------------------------------------------------------

\* b is one line: it ends with its only newline
OneLine(b) == b # <<>> /\ b[Len(b)] = LF /\ Newlines(b) = 1

\* the bytes readPump of c holds or that wait on its conn, an unfinished line
Unfinished(c) == rdBuf[c] \o sock[c] # <<>> /\ ~HasLine(rdBuf[c] \o sock[c])

\* the Hub has received the join notice of c or a chat message of c
HeardOf(c) == \E i \in DOMAIN hubLog : hubLog[i].msg.from = c

\* C37: readPump sends the Hub newline-terminated lines only: every line it
\* was given by ReadBytes is one line, every chat message the Hub received is
\* built from such a line, and there are no more of them than the peer sent
\* newlines after its name; the read that fails on an unfinished line builds
\* and sends nothing.  A peer whose name never gets its newline is never
\* registered or announced: its handshake can only fail, closing the conn.
C37_OnlyTerminatedLines ==
  /\ [](\A c \in Conn :
          /\ \A k \in DOMAIN lineLog[c] : OneLine(lineLog[c][k])
          /\ \A k \in DOMAIN HubChats(c) :
               /\ k \in DOMAIN lineLog[c]
               /\ HubChats(c)[k] = FormatMessage(nickname[c], lineLog[c][k])
          /\ Len(lineLog[c]) + 1 <= Newlines(Concat(script[c])) \/ lineLog[c] = <<>>
          /\ Newlines(Concat(script[c])) = 0 =>
               /\ hc[c] \in {"idle", "prompt", "nickname", "failed"}
               /\ nreg[c] = 0 /\ c \notin clients /\ ~HeardOf(c)
               /\ rp[c] = "none")
  /\ [][\A c \in Conn :
          /\ (rp[c] = "read" /\ rp'[c] = "unregister") =>
               /\ message' = message /\ lineLog' = lineLog
               /\ hubLog' = hubLog
          /\ (hc[c] = "nickname" /\ hc'[c] # "nickname" /\ ~HasLine(sock[c])) =>
               /\ hc'[c] = "failed"
               /\ connClosed'[c]
               /\ nickname' = nickname]_vars

\* readPump of connection 1 has left on a failed read with an unfinished line
\* pending, after one complete line that the Hub has received and none since;
\* and the handshake of another connection has failed on a name without newline
C37_Witness ==
  \E c \in Wired : \E d \in Conn \ Wired :
    /\ rp[c] = "done"
    /\ Unfinished(c)
    /\ nsent[c] = Len(script[c])
    /\ Len(HubChats(c)) = 1 /\ Len(lineLog[c]) = 1
    /\ hubPc = "select"
    /\ hc[d] = "failed" /\ sock[d] = <<"a">> /\ connClosed[d]

====
